---- MODULE Spec2Model ----
(***************************************************************************)
(* Distributed print shops: nodes with finite daily capacity, geographic   *)
(* clusters with transactional allocation, and a four-tier order router.   *)
(* The model follows src/src/network/node.py, src/src/models/cluster.py,   *)
(* src/src/routing/router.py, src/src/routing/optimizer.py and             *)
(* src/src/network/discovery.py.                                           *)
(***************************************************************************)
EXTENDS Integers, Sequences, FiniteSets, TLC

(***************************************************************************)
(* Bounds of the model.                                                    *)
(***************************************************************************)
MaxQty == 2
MaxItems == 2
MaxAccepted == 1
MaxRouted == 1
MaxDown == 1
MaxInv == 1
MaxAge == 2
MaxSubmitted == 2
MaxTotal == 6
MaxHistory == 2
MaxCoord == 2

(***************************************************************************)
(* Program constants.                                                      *)
(***************************************************************************)
max_queue_size == 100
max_split_shops == 3
max_split_clusters == 2
max_distance == 500
node_timeout == 300
heartbeat_interval == 30

(***************************************************************************)
(* The fleet: three nodes on a line (positions in miles), two clusters.    *)
(* n1 and n2 stand for the San Francisco and Oakland shops of the tests,   *)
(* n3 for the Los Angeles shop.                                            *)
(***************************************************************************)
Nodes == {"n1", "n2", "n3"}
NodeOrder == <<"n1", "n2", "n3">>
\* c1 and c2 are the clusters of the router fixtures; c3 is a cluster object
\* centred on the Oakland shop that starts empty and unregistered
Clusters == {"c1", "c2", "c3"}
RouterClusters == <<"c1", "c2">>
InitialNodes == [c \in Clusters |-> CASE c = "c1" -> {"n1", "n2"}
                                      [] c = "c2" -> {"n3"}
                                      [] OTHER -> {}]

OrderStatus == {"CREATED", "ASSIGNED", "IN_PRODUCTION", "COMPLETED", "FAILED"}
ShopStatus == {"ONLINE", "OFFLINE", "MAINTENANCE", "LIMITED"}
Capability == {"tshirt", "mug"}
NoSku == "none"
Skus == {"S1"}

daily_capacity == [n \in Nodes |-> IF n = "n3" THEN MaxQty + 1 ELSE MaxQty]
capabilities == [n \in Nodes |-> IF n = "n2" THEN {"tshirt", "mug"} ELSE {"tshirt"}]
location == [n \in Nodes |-> CASE n = "n1" -> 0 [] n = "n2" -> 8 [] OTHER -> 347]
center_location == [c \in Clusters |-> CASE c = "c1" -> 0 [] c = "c2" -> 347 [] OTHER -> 8]
radius_miles == 100
CustomerSites == {0, 347}

Abs(x) == IF x < 0 THEN -x ELSE x
distance_to(a, b) == Abs(a - b)

(***************************************************************************)
(* Orders: a customer location and a list of items.  OrderItem is a frozen *)
(* pydantic model, compared and hashed by the values of its fields; the    *)
(* fields that no routing decision reads (design_url, notes) are taken to  *)
(* be equal, so two items of the model are equal when type, quantity and   *)
(* sku are.                                                                *)
(***************************************************************************)
OrderItem == [product_type : Capability, quantity : 1..MaxQty, sku : {NoSku} \cup Skus]
ItemPool ==
    {i \in OrderItem :
        \/ i.sku = NoSku /\ (i.product_type = "tshirt" \/ i.quantity = 1)
        \/ i.sku # NoSku /\ i.product_type = "tshirt" /\ i.quantity = 1}
ItemLists == UNION {[1..k -> ItemPool] : k \in 0..MaxItems}
OrderIds == {"o1", "o2"}
Orders == [id : OrderIds, customer_location : CustomerSites, items : ItemLists]

RECURSIVE SumQty(_)
SumQty(items) ==
    IF items = <<>> THEN 0 ELSE items[1].quantity + SumQty(Tail(items))
total_quantity(order) == SumQty(order.items)
required_capabilities(order) == {order.items[i].product_type : i \in DOMAIN order.items}

Range(f) == {f[x] : x \in DOMAIN f}
Min(a, b) == IF a <= b THEN a ELSE b
Max(a, b) == IF a >= b THEN a ELSE b

VARIABLES
    status,            \* node.state.status
    shop_status,       \* node.shop.status, the status field of the shop profile
    current_capacity,  \* node.state.current_capacity
    inventory,         \* node.state.inventory: sku -> quantity, per node
    production_queue,  \* node.state.production_queue: list of order ids
    active_orders,     \* node.state.active_orders: order id -> order
    order_history,     \* node.state.order_history
    producing,         \* the order the production loop holds while it sleeps
    heartbeat_age,     \* now - node.state.last_heartbeat, in heartbeat intervals
    nodes,             \* cluster.nodes, the member set of each cluster
    metrics,           \* cluster.metrics, per cluster
    stats,             \* router statistics
    rt,                \* the route_order call in progress, if any
    router_clusters,   \* router.clusters, the list of clusters given to the router
    clusters,          \* discovery.clusters, the ids of the registered clusters
    network_metrics,   \* discovery.metrics, the network-level metrics
    order_status,      \* order.status and order.status_history, per order id
    shop_assignments,  \* order.shop_assignments of one order: shop id -> item indices
    assigned_shop_id,  \* item.assigned_shop_id of the items of that order, by index
    pending_responses, \* protocol.pending_responses: message id -> future
    sends,             \* the send_message call of each message id and what it returned
    subscribers,       \* transport._subscribers: topic -> set of callbacks
    published_messages,\* transport.published_messages: topic -> list of messages
    received,          \* the messages each callback was invoked with, in order
    last_call          \* the last call of a node or discovery operation and its result

vars == <<status, shop_status, current_capacity, inventory, production_queue,
          active_orders, order_history, producing, heartbeat_age, nodes, metrics,
          stats, rt, router_clusters, clusters, network_metrics, order_status,
          shop_assignments, assigned_shop_id, pending_responses, sends,
          subscribers, published_messages, received, last_call>>

\* the clusters of the router, in the order of its list
ClusterOrder == router_clusters

NoOrder == [id |-> "none"]
NoMessage == [type |-> "None", message_id |-> "None"]
MessageIds == {"m1", "m2"}
Topics == {"t1", "t2"}
Callbacks == {"cb1", "cb2", "cb3"}
NoCall == [op |-> "none", result |-> FALSE]
Idle == [pc |-> "idle"]

(***************************************************************************)
(* PrintShopNode: capacity and inventory checks.  The operators take the   *)
(* capacity map as an argument so that a routing tier can evaluate them on *)
(* the capacities it has already changed.                                  *)
(***************************************************************************)
has_capacity_no_status(cap, n, quantity) == cap[n] >= quantity

has_capacity_no_limit(cap, n, quantity) == status[n] = "ONLINE"

has_capacity(cap, n, quantity) ==
    status[n] = "ONLINE" /\ cap[n] >= quantity

release_capacity_unclamped(cap, n, quantity) ==
    [cap EXCEPT ![n] = cap[n] + quantity]

release_capacity(cap, n, quantity) ==
    [cap EXCEPT ![n] = Min(daily_capacity[n], cap[n] + quantity)]

\* reserve_capacity returns the pair of its boolean result and the new capacities
reserve_capacity(cap, n, quantity) ==
    IF has_capacity(cap, n, quantity)
    THEN [ok |-> TRUE, cap |-> [cap EXCEPT ![n] = cap[n] - quantity]]
    ELSE [ok |-> FALSE, cap |-> cap]

can_fulfill_item(cap, n, product_type, quantity, sku) ==
    IF product_type \notin capabilities[n] THEN FALSE
    ELSE IF ~has_capacity(cap, n, quantity) THEN FALSE
    ELSE IF sku # NoSku /\ sku \in DOMAIN inventory[n]
         THEN inventory[n][sku] >= quantity
         ELSE TRUE

_can_handle_order_no_inventory(cap, n, order) ==
    /\ has_capacity(cap, n, total_quantity(order))
    /\ \A i \in DOMAIN order.items :
          can_fulfill_item(cap, n, order.items[i].product_type,
                           order.items[i].quantity, NoSku)

_can_handle_order(cap, n, order) ==
    /\ has_capacity(cap, n, total_quantity(order))
    /\ \A i \in DOMAIN order.items :
          can_fulfill_item(cap, n, order.items[i].product_type,
                           order.items[i].quantity, order.items[i].sku)

(***************************************************************************)
(* Initial state: every node ONLINE at full capacity, nothing queued.      *)
(***************************************************************************)
RECURSIVE SumDaily(_)
SumDaily(S) ==
    IF S = {} THEN 0
    ELSE LET n == CHOOSE x \in S : TRUE IN daily_capacity[n] + SumDaily(S \ {n})

\* ClusterMetrics after add_node for every initial member
ClusterMetricsInit(c) ==
    [total_capacity |-> SumDaily(InitialNodes[c]),
     available_capacity |-> SumDaily(InitialNodes[c]),
     active_orders |-> 0,
     total_orders_processed |-> 0]

\* the sum of one field of the cluster metrics over a set of clusters
RECURSIVE SumMetric(_, _, _)
SumMetric(ms, S, field) ==
    IF S = {} THEN 0
    ELSE LET c == CHOOSE x \in S : TRUE IN ms[c][field] + SumMetric(ms, S \ {c}, field)

\* discovery._update_metrics(): the number of registered clusters and the sums
\* of the capacity metrics the registered clusters report
_update_metrics(cs, ms) ==
    [total_clusters |-> Cardinality(cs),
     total_capacity |-> SumMetric(ms, cs, "total_capacity"),
     available_capacity |-> SumMetric(ms, cs, "available_capacity")]

InitNetwork ==
    /\ status = [n \in Nodes |-> "ONLINE"]
    /\ shop_status = [n \in Nodes |-> "ONLINE"]
    /\ current_capacity = daily_capacity
    /\ inventory = [n \in Nodes |-> <<>>]
    /\ production_queue = [n \in Nodes |-> <<>>]
    /\ active_orders = [n \in Nodes |-> <<>>]
    /\ order_history = [n \in Nodes |-> <<>>]
    /\ producing = [n \in Nodes |-> NoOrder]
    /\ heartbeat_age = [n \in Nodes |-> 0]
    /\ nodes = InitialNodes
    /\ metrics = [c \in Clusters |-> ClusterMetricsInit(c)]
    /\ stats = [total_orders |-> 0, successful_routes |-> 0, failed_routes |-> 0]
    /\ rt = Idle
    /\ clusters = Range(RouterClusters)
    /\ network_metrics = _update_metrics(Range(RouterClusters),
                                         [c \in Clusters |-> ClusterMetricsInit(c)])
    /\ order_status = [o \in OrderIds |-> [status |-> "CREATED", status_history |-> <<>>]]
    /\ shop_assignments = <<>>
    /\ assigned_shop_id = [i \in 0..(MaxItems - 1) |-> "none"]
    /\ pending_responses = <<>>
    /\ sends = [id \in MessageIds |->
                   [pc |-> "none", type |-> "None", replied |-> FALSE,
                    timed_out |-> FALSE, value |-> NoMessage]]
    /\ subscribers = [t \in Topics |-> {}]
    /\ published_messages = [t \in Topics |-> <<>>]
    /\ received = [cb \in Callbacks |-> <<>>]
    /\ last_call = NoCall

Init == InitNetwork /\ router_clusters = RouterClusters

(***************************************************************************)
(* Exact arithmetic on scores: a score is a fraction num/den with den > 0. *)
(***************************************************************************)
Frac(n, d) == [num |-> n, den |-> d]
FAdd(a, b) == [num |-> a.num * b.den + b.num * a.den, den |-> a.den * b.den]
FScale(k, a) == [num |-> k * a.num, den |-> a.den]
FGreater(a, b) == a.num * b.den > b.num * a.den
FGeq(a, b) == a.num * b.den >= b.num * a.den

RECURSIVE SumCap(_, _)
SumCap(cap, S) ==
    IF S = {} THEN 0
    ELSE LET n == CHOOSE x \in S : TRUE IN cap[n] + SumCap(cap, S \ {n})

(***************************************************************************)
(* RouteOptimizer: sub-scores and rankings.                                *)
(***************************************************************************)
weight_distance == 4
weight_capacity == 3
weight_inventory == 2
weight_capability == 1
cluster_weight_distance == 5
cluster_weight_capacity == 3
cluster_weight_capability == 2

_calculate_distance_score(shop_location, customer_location) ==
    LET distance == distance_to(shop_location, customer_location)
    IN IF distance > max_distance THEN Frac(0, 1)
       ELSE Frac(max_distance - distance, max_distance)

_calculate_capacity_score(cap, n, order) ==
    IF ~has_capacity(cap, n, total_quantity(order)) THEN Frac(0, 1)
    ELSE Frac(cap[n], daily_capacity[n])

RECURSIVE SumInventoryScores(_, _)
SumInventoryScores(n, items) ==
    IF items = <<>> THEN Frac(0, 1)
    ELSE LET item == Head(items)
             s == IF item.sku \in DOMAIN inventory[n]
                  THEN IF inventory[n][item.sku] >= item.quantity
                       THEN Frac(1, 1)
                       ELSE Frac(inventory[n][item.sku], item.quantity)
                  ELSE Frac(0, 1)
         IN FAdd(s, SumInventoryScores(n, Tail(items)))

_calculate_inventory_score(n, order) ==
    IF order.items = <<>> THEN Frac(1, 1)
    ELSE LET s == SumInventoryScores(n, order.items)
         IN Frac(s.num, s.den * Len(order.items))

_calculate_capability_score(n, order) ==
    LET required == required_capabilities(order)
    IN IF required = {} THEN Frac(1, 1)
       ELSE Frac(Cardinality(required \cap capabilities[n]), Cardinality(required))

_can_possibly_fulfill(cap, n, order) ==
    /\ has_capacity(cap, n, total_quantity(order))
    /\ required_capabilities(order) \subseteq capabilities[n]
    /\ distance_to(location[n], order.customer_location) <= max_distance

\* ten times the weighted total of score_shops
NodeScore(cap, n, order) ==
    FAdd(FAdd(FScale(weight_distance,
                     _calculate_distance_score(location[n], order.customer_location)),
              FScale(weight_capacity, _calculate_capacity_score(cap, n, order))),
         FAdd(FScale(weight_inventory, _calculate_inventory_score(n, order)),
              FScale(weight_capability, _calculate_capability_score(n, order))))

\* list.sort(key=lambda x: x.score, reverse=True): descending and stable
RECURSIVE InsertDesc(_, _)
InsertDesc(sorted, x) ==
    IF sorted = <<>> THEN <<x>>
    ELSE IF FGeq(Head(sorted).score, x.score)
         THEN <<Head(sorted)>> \o InsertDesc(Tail(sorted), x)
         ELSE <<x>> \o sorted

RECURSIVE SortDesc(_)
SortDesc(seq) ==
    IF seq = <<>> THEN <<>>
    ELSE InsertDesc(SortDesc(SubSeq(seq, 1, Len(seq) - 1)), seq[Len(seq)])

\* the ranking of the nodes that pass the pre-check and score above zero
score_nodes(cap, order) ==
    LET scored == [k \in 1..Len(NodeOrder) |->
                      [node_id |-> NodeOrder[k],
                       score |-> NodeScore(cap, NodeOrder[k], order)]]
        candidates == SelectSeq(scored,
                          LAMBDA x : _can_possibly_fulfill(cap, x.node_id, order)
                                     /\ x.score.num > 0)
    IN SortDesc(candidates)

(***************************************************************************)
(* Cluster: admissibility check and transactional allocation.              *)
(***************************************************************************)
get_capabilities(c) == UNION {capabilities[n] : n \in nodes[c]}

can_fulfill_order(met, c, order) ==
    /\ required_capabilities(order) \subseteq get_capabilities(c)
    /\ total_quantity(order) <= met[c].available_capacity

\* sorted(self.nodes, key=daily_capacity, reverse=True): the order among members
\* of equal daily capacity is the iteration order of a set of objects hashed by
\* identity, which is any order
SortedNodes(c) ==
    {sq \in [1..Cardinality(nodes[c]) -> nodes[c]] :
        /\ \A i, j \in DOMAIN sq : i # j => sq[i] # sq[j]
        /\ \A i, j \in DOMAIN sq :
              i < j => daily_capacity[sq[i]] >= daily_capacity[sq[j]]}

NoRollback(cap, reserved, S) == cap

\* for n, qty in reserved_capacities.items(): n.release_capacity(qty)
RECURSIVE Rollback(_, _, _)
Rollback(cap, reserved, S) ==
    IF S = {} THEN cap
    ELSE LET n == CHOOSE x \in S : TRUE
         IN Rollback(release_capacity(cap, n, reserved[n]), reserved, S \ {n})

\* the first node of sorted_nodes that can fulfil the item and grants the
\* reservation; 0 if there is none
FirstFit(cap, sorted_nodes, item) ==
    LET fits == {k \in DOMAIN sorted_nodes :
                    /\ can_fulfill_item(cap, sorted_nodes[k], item.product_type,
                                        item.quantity, item.sku)
                    /\ reserve_capacity(cap, sorted_nodes[k], item.quantity).ok}
    IN IF fits = {} THEN 0 ELSE CHOOSE k \in fits : \A j \in fits : k <= j

\* the while loop of allocate_order: allocation maps every node to the list
\* of items given to it (a node is a key of the dict when its list is not empty)
RECURSIVE AllocateLoop(_, _, _, _, _)
AllocateLoop(remaining_items, cap, allocation, reserved, sorted_nodes) ==
    IF remaining_items = <<>>
    THEN [ok |-> TRUE, cap |-> cap, allocation |-> allocation]
    ELSE LET item == Head(remaining_items)
             k == FirstFit(cap, sorted_nodes, item)
         IN IF k = 0
            THEN [ok |-> FALSE,
                  cap |-> Rollback(cap, reserved, {n \in Nodes : reserved[n] > 0}),
                  allocation |-> [n \in Nodes |-> <<>>]]
            ELSE LET n == sorted_nodes[k]
                 IN AllocateLoop(Tail(remaining_items),
                                 reserve_capacity(cap, n, item.quantity).cap,
                                 [allocation EXCEPT ![n] = Append(@, item)],
                                 [reserved EXCEPT ![n] = @ + item.quantity],
                                 sorted_nodes)

\* node.fulfill_items(items): starts production of items whose capacity is
\* already reserved; it reserves and releases nothing
fulfill_items(cap, n, items) == cap

RECURSIVE FulfillAll(_, _, _)
FulfillAll(cap, allocation, S) ==
    IF S = {} THEN cap
    ELSE LET n == CHOOSE x \in S : TRUE
         IN FulfillAll(fulfill_items(cap, n, allocation[n]), allocation, S \ {n})

allocate_order_stale_metrics(cap, met, c, order, sorted_nodes) ==
    LET r == AllocateLoop(order.items, cap, [n \in Nodes |-> <<>>],
                          [n \in Nodes |-> 0], sorted_nodes)
        allocated == {n \in Nodes : r.allocation[n] # <<>>}
    IN IF ~r.ok
       THEN [ok |-> FALSE, cap |-> r.cap, met |-> met, allocation |-> r.allocation]
       ELSE [ok |-> TRUE,
             cap |-> FulfillAll(r.cap, r.allocation, allocated),
             met |-> [met EXCEPT
                         ![c].active_orders = @ + 1,
                         ![c].total_orders_processed = @ + 1],
             allocation |-> r.allocation]

\* allocate_order returns the allocation (ok) or None (~ok), with the
\* capacities and the metrics it leaves
allocate_order(cap, met, c, order, sorted_nodes) ==
    LET r == AllocateLoop(order.items, cap, [n \in Nodes |-> <<>>],
                          [n \in Nodes |-> 0], sorted_nodes)
        allocated == {n \in Nodes : r.allocation[n] # <<>>}
    IN IF ~r.ok
       THEN [ok |-> FALSE, cap |-> r.cap, met |-> met, allocation |-> r.allocation]
       ELSE [ok |-> TRUE,
             cap |-> FulfillAll(r.cap, r.allocation, allocated),
             met |-> [met EXCEPT
                         ![c].available_capacity = @ - total_quantity(order),
                         ![c].active_orders = @ + 1,
                         ![c].total_orders_processed = @ + 1],
             allocation |-> r.allocation]

\* Cluster.route_order
cluster_route_order(cap, met, c, order, sorted_nodes) ==
    IF ~can_fulfill_order(met, c, order)
    THEN [ok |-> FALSE, cap |-> cap, met |-> met,
          allocation |-> [n \in Nodes |-> <<>>]]
    ELSE allocate_order(cap, met, c, order, sorted_nodes)

(***************************************************************************)
(* RouteOptimizer: cluster scoring.                                        *)
(***************************************************************************)
\* ten times the weighted score of optimize_cluster_assignment; the division
\* by the number of required product types is only evaluated for an order
\* that has items
ClusterCapacityScore(cap, c) ==
    Frac(SumCap(cap, nodes[c]), Max(1, Cardinality(nodes[c])))

ClusterCapabilityScore(c, order) ==
    Frac(Cardinality(get_capabilities(c)), Cardinality(required_capabilities(order)))

ClusterScore(cap, c, order) ==
    FAdd(FScale(cluster_weight_distance,
                _calculate_distance_score(center_location[c], order.customer_location)),
         FAdd(FScale(cluster_weight_capacity, ClusterCapacityScore(cap, c)),
              FScale(cluster_weight_capability, ClusterCapabilityScore(c, order))))

RECURSIVE OptimizeLoop(_, _, _, _, _, _)
OptimizeLoop(cap, met, order, k, best_cluster, best_score) ==
    IF k > Len(ClusterOrder)
    THEN [raised |-> FALSE, best_cluster |-> best_cluster, score |-> best_score]
    ELSE LET c == ClusterOrder[k]
         IN IF ~can_fulfill_order(met, c, order)
            THEN OptimizeLoop(cap, met, order, k + 1, best_cluster, best_score)
            ELSE IF required_capabilities(order) = {}
            THEN [raised |-> TRUE, best_cluster |-> "none", score |-> best_score]
            ELSE LET score == ClusterScore(cap, c, order)
                 IN IF FGreater(score, best_score)
                    THEN OptimizeLoop(cap, met, order, k + 1, c, score)
                    ELSE OptimizeLoop(cap, met, order, k + 1, best_cluster, best_score)

\* returns the best cluster ("none" if no cluster passes can_fulfill_order) and
\* its score, or raises ZeroDivisionError on an order without items
optimize_cluster_assignment(cap, met, order) ==
    OptimizeLoop(cap, met, order, 1, "none", Frac(-1, 1))

\* the ranking of the clusters that pass the pre-check (capabilities, capacity,
\* distance), best score first
score_clusters(cap, met, order) ==
    LET scored == [k \in 1..Len(ClusterOrder) |->
                      [cluster |-> ClusterOrder[k],
                       score |-> IF required_capabilities(order) = {} THEN Frac(0, 1)
                                 ELSE ClusterScore(cap, ClusterOrder[k], order)]]
    IN SortDesc(SelectSeq(scored,
                          LAMBDA x : /\ can_fulfill_order(met, x.cluster, order)
                                     /\ distance_to(center_location[x.cluster],
                                                    order.customer_location) <= max_distance))

(***************************************************************************)
(* OrderRouter: the four tiers.  Item indices are list positions counted   *)
(* from 1.  A tier returns its outcome ("success", "none" when it returns  *)
(* None, "error" when it raises), the node assignments and the capacities  *)
(* and metrics it leaves.                                                  *)
(***************************************************************************)
NoAssignments == [n \in {} |-> <<>>]
Indices(order) == [i \in 1..Len(order.items) |-> i]

TierResult(outcome, routing_type, assignments, cap, met) ==
    [outcome |-> outcome, routing_type |-> routing_type,
     node_assignments |-> assignments, cap |-> cap, met |-> met]

\* indices = [i for i, order_item in enumerate(order.items) if order_item in items]
_build_assignments_from_allocation(order, allocation) ==
    [n \in {m \in Nodes : allocation[m] # <<>>} |->
        SelectSeq(Indices(order), LAMBDA i : order.items[i] \in Range(allocation[n]))]

_try_cluster_routing(cap, met, order, sorted_nodes) ==
    LET opt == optimize_cluster_assignment(cap, met, order)
    IN IF opt.raised THEN TierResult("error", "cluster", NoAssignments, cap, met)
       ELSE IF opt.best_cluster # "none" /\ opt.score.num > 0
       THEN LET r == cluster_route_order(cap, met, opt.best_cluster, order,
                                         sorted_nodes[opt.best_cluster])
            IN IF r.ok /\ \E n \in Nodes : r.allocation[n] # <<>>
               THEN TierResult("success", "cluster",
                               _build_assignments_from_allocation(order, r.allocation),
                               r.cap, r.met)
               ELSE TierResult("none", "cluster", NoAssignments, r.cap, r.met)
       ELSE TierResult("none", "cluster", NoAssignments, cap, met)

\* node.can_fulfill_entire_order(order): every item can be fulfilled by the node
can_fulfill_entire_order(cap, n, order) == _can_handle_order(cap, n, order)

_try_direct_node_routing(cap, met, order) ==
    LET node_scores == score_nodes(cap, order)
        total == total_quantity(order)
        fits == {k \in DOMAIN node_scores :
                    /\ can_fulfill_entire_order(cap, node_scores[k].node_id, order)
                    /\ reserve_capacity(cap, node_scores[k].node_id, total).ok}
    IN IF fits = {} THEN TierResult("none", "direct_node", NoAssignments, cap, met)
       ELSE LET k == CHOOSE x \in fits : \A y \in fits : x <= y
                n == node_scores[k].node_id
            IN TierResult("success", "direct_node", (n :> Indices(order)),
                          reserve_capacity(cap, n, total).cap, met)

RECURSIVE SumIdxQty(_, _)
SumIdxQty(order, indices) ==
    IF indices = <<>> THEN 0
    ELSE order.items[Head(indices)].quantity + SumIdxQty(order, Tail(indices))

fulfillable_with_sku(cap, n, order, unassigned_items) ==
    SelectSeq(unassigned_items,
              LAMBDA i : can_fulfill_item(cap, n, order.items[i].product_type,
                                          order.items[i].quantity, order.items[i].sku))

\* the unassigned items the node can fulfil; the split tier passes no sku
fulfillable_indices(cap, n, order, unassigned_items) ==
    SelectSeq(unassigned_items,
              LAMBDA i : can_fulfill_item(cap, n, order.items[i].product_type,
                                          order.items[i].quantity, NoSku))

RECURSIVE SplitLoopCapOne(_, _, _, _, _)
SplitLoopCapOne(cap, met, order, unassigned_items, assignments) ==
    IF unassigned_items = <<>>
    THEN TierResult("success", "split_node", assignments, cap, met)
    ELSE LET node_scores == score_nodes(cap, order)
             takes == {k \in DOMAIN node_scores :
                          LET n == node_scores[k].node_id
                              f == fulfillable_indices(cap, n, order, unassigned_items)
                          IN /\ f # <<>>
                             /\ reserve_capacity(cap, n, SumIdxQty(order, f)).ok}
         IN IF takes = {}
            THEN TierResult("none", "split_node", NoAssignments, cap, met)
            ELSE LET k == CHOOSE x \in takes : \A y \in takes : x <= y
                     n == node_scores[k].node_id
                     f == fulfillable_indices(cap, n, order, unassigned_items)
                     cap2 == reserve_capacity(cap, n, SumIdxQty(order, f)).cap
                     assignments2 == (n :> f) @@ assignments
                     unassigned2 == SelectSeq(unassigned_items,
                                              LAMBDA i : i \notin Range(f))
                 IN IF Cardinality(DOMAIN assignments2) >= 1
                    THEN TierResult("none", "split_node", NoAssignments, cap2, met)
                    ELSE SplitLoopCapOne(cap2, met, order, unassigned2, assignments2)

\* the while loop of _try_split_node_routing; it has no release on its
\* return None paths
RECURSIVE SplitLoop(_, _, _, _, _)
SplitLoop(cap, met, order, unassigned_items, assignments) ==
    IF unassigned_items = <<>>
    THEN TierResult("success", "split_node", assignments, cap, met)
    ELSE LET node_scores == score_nodes(cap, order)
             takes == {k \in DOMAIN node_scores :
                          LET n == node_scores[k].node_id
                              f == fulfillable_indices(cap, n, order, unassigned_items)
                          IN /\ f # <<>>
                             /\ reserve_capacity(cap, n, SumIdxQty(order, f)).ok}
         IN IF takes = {}
            THEN TierResult("none", "split_node", NoAssignments, cap, met)
            ELSE LET k == CHOOSE x \in takes : \A y \in takes : x <= y
                     n == node_scores[k].node_id
                     f == fulfillable_indices(cap, n, order, unassigned_items)
                     cap2 == reserve_capacity(cap, n, SumIdxQty(order, f)).cap
                     assignments2 == (n :> f) @@ assignments
                     unassigned2 == SelectSeq(unassigned_items,
                                              LAMBDA i : i \notin Range(f))
                 IN IF Cardinality(DOMAIN assignments2) >= max_split_shops
                    THEN TierResult("none", "split_node", NoAssignments, cap2, met)
                    ELSE SplitLoop(cap2, met, order, unassigned2, assignments2)

_try_split_node_routing(cap, met, order) ==
    SplitLoop(cap, met, order, Indices(order), NoAssignments)

\* rem_map = {partial_order.items[i]: unassigned_items[i] ...}: for equal
\* items the last position wins
rem_map(partial_items, unassigned_items, item) ==
    unassigned_items[CHOOSE i \in DOMAIN partial_items :
                        /\ partial_items[i] = item
                        /\ \A j \in DOMAIN partial_items :
                              partial_items[j] = item => j <= i]

\* the for loop of _try_multi_cluster_routing over the cluster ranking; it
\* has no rollback of the cluster allocations it made
RECURSIVE MultiLoop(_, _, _, _, _, _, _, _)
MultiLoop(cap, met, order, cluster_scores, k, unassigned_items, assignments, sorted_nodes) ==
    IF k > Len(cluster_scores) \/ unassigned_items = <<>>
    THEN IF unassigned_items = <<>>
         THEN TierResult("success", "multi_cluster", assignments, cap, met)
         ELSE TierResult("none", "multi_cluster", NoAssignments, cap, met)
    ELSE LET c == cluster_scores[k].cluster
             partial_order == [order EXCEPT
                                 !.items = [i \in DOMAIN unassigned_items |->
                                               order.items[unassigned_items[i]]]]
             r == cluster_route_order(cap, met, c, partial_order, sorted_nodes[c])
         IN IF ~(r.ok /\ \E n \in Nodes : r.allocation[n] # <<>>)
            THEN MultiLoop(r.cap, r.met, order, cluster_scores, k + 1,
                           unassigned_items, assignments, sorted_nodes)
            ELSE LET cluster_assignments ==
                         _build_assignments_from_allocation(partial_order, r.allocation)
                     real == [n \in DOMAIN cluster_assignments |->
                                 [j \in DOMAIN cluster_assignments[n] |->
                                     rem_map(partial_order.items, unassigned_items,
                                             partial_order.items[cluster_assignments[n][j]])]]
                     assignments2 == real @@ assignments
                     assigned == UNION {Range(assignments2[n]) : n \in DOMAIN assignments2}
                     unassigned2 == SelectSeq(unassigned_items,
                                              LAMBDA i : i \notin assigned)
                 IN IF Cardinality(DOMAIN assignments2) >= max_split_clusters
                    THEN IF unassigned2 = <<>>
                         THEN TierResult("success", "multi_cluster", assignments2,
                                         r.cap, r.met)
                         ELSE TierResult("none", "multi_cluster", NoAssignments,
                                         r.cap, r.met)
                    ELSE MultiLoop(r.cap, r.met, order, cluster_scores, k + 1,
                                   unassigned2, assignments2, sorted_nodes)

_try_multi_cluster_routing(cap, met, order, sorted_nodes) ==
    IF Len(ClusterOrder) < 2
    THEN TierResult("none", "multi_cluster", NoAssignments, cap, met)
    ELSE MultiLoop(cap, met, order, score_clusters(cap, met, order), 1,
                   Indices(order), NoAssignments, sorted_nodes)

(***************************************************************************)
(* Node operations.  A coroutine runs without interruption between two     *)
(* suspension points, and route_order has none (it only awaits coroutines  *)
(* that never suspend), so no node operation runs while rt.pc # "idle".    *)
(***************************************************************************)
RoutedOrders == {o \in Orders : o.id = "o1"}
HandledOrders == {o \in Orders : o.customer_location = 0 /\ Len(o.items) = 1}
AllocatedOrders == {o \in RoutedOrders : o.customer_location = 0}
\* orders as in test_split_routing: one item larger than any node's daily
\* capacity and no larger than the capacity of the fleet
LargeOrders ==
    [id : {"o1"}, customer_location : CustomerSites,
     items : {<<[product_type |-> "tshirt", quantity |-> q, sku |-> NoSku]>> :
                 q \in (MaxQty + 2)..(3 * MaxQty + 1)}]

RECURSIVE SumLen(_, _)
SumLen(f, S) ==
    IF S = {} THEN 0
    ELSE LET n == CHOOSE x \in S : TRUE IN Len(f[n]) + SumLen(f, S \ {n})
Accepted == SumLen(production_queue, Nodes) + SumLen(order_history, Nodes)

\* no operation of a node, a cluster, the router or the discovery writes the
\* status of an order
order_unchanged == UNCHANGED <<order_status, shop_assignments, assigned_shop_id>>
protocol_unchanged == UNCHANGED <<pending_responses, sends>>
transport_unchanged == UNCHANGED <<subscribers, published_messages, received>>
node_unchanged ==
    /\ UNCHANGED <<status, shop_status, inventory, production_queue,
                   active_orders, order_history, producing, heartbeat_age>>
    /\ order_unchanged
    /\ protocol_unchanged /\ transport_unchanged
cluster_unchanged ==
    /\ UNCHANGED <<nodes, metrics, router_clusters, clusters, network_metrics>>
    /\ order_unchanged
    /\ protocol_unchanged /\ transport_unchanged
\* nodes, clusters, router, registry and orders stay as they are
network_unchanged ==
    UNCHANGED <<status, shop_status, current_capacity, inventory, production_queue,
                active_orders, order_history, producing, heartbeat_age, nodes, metrics,
                stats, rt, router_clusters, clusters, network_metrics, order_status,
                shop_assignments, assigned_shop_id>>

\* node.reserve_capacity(quantity), called directly
ReserveCapacity(n, quantity) ==
    /\ rt.pc = "idle"
    /\ LET r == reserve_capacity(current_capacity, n, quantity)
       IN /\ current_capacity' = r.cap
          /\ last_call' = [op |-> "reserve_capacity", result |-> r.ok, node |-> n]
    /\ node_unchanged /\ cluster_unchanged
    /\ UNCHANGED <<stats, rt>>

\* node.release_capacity(quantity), called directly
ReleaseCapacity(n, quantity) ==
    /\ rt.pc = "idle"
    /\ current_capacity' = release_capacity(current_capacity, n, quantity)
    /\ last_call' = [op |-> "release_capacity", result |-> TRUE, node |-> n,
                     before |-> current_capacity[n], quantity |-> quantity]
    /\ node_unchanged /\ cluster_unchanged
    /\ UNCHANGED <<stats, rt>>

\* node.update_status(new_status)
UpdateStatus(n, new_status) ==
    /\ rt.pc = "idle"
    /\ Cardinality({m \in Nodes \ {n} : status[m] # "ONLINE"}) < MaxDown
    /\ status' = [status EXCEPT ![n] = new_status]
    /\ heartbeat_age' = [heartbeat_age EXCEPT ![n] = 0]
    /\ last_call' = NoCall
    /\ cluster_unchanged
    /\ UNCHANGED <<shop_status, current_capacity, inventory, production_queue,
                   active_orders, order_history, producing, stats, rt>>

\* node.stop(), on a node whose protocol is wired as the end-to-end tests wire
\* it: the bye message is sent and the status is set to OFFLINE; no task of
\* the node is cancelled
Stop(n) ==
    /\ rt.pc = "idle"
    /\ status' = [status EXCEPT ![n] = "OFFLINE"]
    /\ last_call' = [op |-> "stop", result |-> TRUE, node |-> n]
    /\ cluster_unchanged
    /\ UNCHANGED <<shop_status, current_capacity, inventory, production_queue,
                   active_orders, order_history, producing, heartbeat_age, stats, rt>>

\* node.shop.status = new_status, as the end-to-end tests mark a failed node
SetShopStatus(n, new_status) ==
    /\ rt.pc = "idle"
    /\ Cardinality({m \in Nodes \ {n} : shop_status[m] # "ONLINE"}) < MaxDown
    /\ shop_status' = [shop_status EXCEPT ![n] = new_status]
    /\ last_call' = NoCall
    /\ cluster_unchanged
    /\ UNCHANGED <<status, current_capacity, inventory, production_queue,
                   active_orders, order_history, producing, heartbeat_age, stats, rt>>

\* node.update_inventory(sku, quantity)
UpdateInventory(n, sku, quantity) ==
    /\ rt.pc = "idle"
    /\ \A m \in Nodes \ {n} : inventory[m] = <<>>
    /\ inventory' = [inventory EXCEPT ![n] = (sku :> quantity) @@ @]
    /\ last_call' = NoCall
    /\ cluster_unchanged
    /\ UNCHANGED <<status, shop_status, current_capacity, production_queue,
                   active_orders, order_history, producing, heartbeat_age, stats, rt>>

HandleOrderNoReserve(n, order, limit) ==
    /\ rt.pc = "idle"
    /\ Accepted < limit
    /\ IF _can_handle_order(current_capacity, n, order)
          /\ Len(production_queue[n]) < max_queue_size
       THEN /\ production_queue' = [production_queue EXCEPT ![n] = Append(@, order.id)]
            /\ active_orders' = [active_orders EXCEPT ![n] = (order.id :> order) @@ @]
            /\ current_capacity' = current_capacity
            /\ last_call' = [op |-> "handle_order", result |-> TRUE, node |-> n]
       ELSE /\ UNCHANGED <<production_queue, active_orders, current_capacity>>
            /\ last_call' = [op |-> "handle_order", result |-> FALSE, node |-> n]
    /\ cluster_unchanged
    /\ UNCHANGED <<status, shop_status, inventory, order_history, producing,
                   heartbeat_age, stats, rt>>

\* node.handle_order(order): the check, the enqueueing and the reservation run
\* before the first await (the publish of ORDER_ALLOCATED)
HandleOrderUpTo(n, order, limit) ==
    /\ rt.pc = "idle"
    /\ Accepted < limit
    /\ IF _can_handle_order(current_capacity, n, order)
          /\ Len(production_queue[n]) < max_queue_size
       THEN /\ production_queue' = [production_queue EXCEPT ![n] = Append(@, order.id)]
            /\ active_orders' = [active_orders EXCEPT ![n] = (order.id :> order) @@ @]
            /\ current_capacity' =
                   reserve_capacity(current_capacity, n, total_quantity(order)).cap
            /\ last_call' = [op |-> "handle_order", result |-> TRUE, node |-> n]
       ELSE /\ UNCHANGED <<production_queue, active_orders, current_capacity>>
            /\ last_call' = [op |-> "handle_order", result |-> FALSE, node |-> n]
    /\ cluster_unchanged
    /\ UNCHANGED <<status, shop_status, inventory, order_history, producing,
                   heartbeat_age, stats, rt>>

HandleOrder(n, order) == HandleOrderUpTo(n, order, MaxAccepted)

\* _process_production_queue up to the sleep of _produce_order: the loop holds
\* the order at the head of the queue
ProductionStart(n) ==
    /\ rt.pc = "idle"
    /\ producing[n] = NoOrder
    /\ production_queue[n] # <<>>
    /\ Head(production_queue[n]) \in DOMAIN active_orders[n]
    /\ producing' = [producing EXCEPT ![n] = active_orders[n][Head(production_queue[n])]]
    /\ last_call' = NoCall
    /\ cluster_unchanged
    /\ UNCHANGED <<status, shop_status, current_capacity, inventory, production_queue,
                   active_orders, order_history, heartbeat_age, stats, rt>>

ProductionCompletePopLast(n) ==
    /\ rt.pc = "idle"
    /\ producing[n] # NoOrder
    /\ current_capacity' =
           release_capacity(current_capacity, n, total_quantity(producing[n]))
    /\ production_queue' = [production_queue EXCEPT ![n] = SubSeq(@, 1, Len(@) - 1)]
    /\ order_history' = [order_history EXCEPT ![n] = Append(@, producing[n].id)]
    /\ active_orders' = [active_orders EXCEPT ![n] =
                            [id \in DOMAIN @ \ {producing[n].id} |-> @[id]]]
    /\ producing' = [producing EXCEPT ![n] = NoOrder]
    /\ last_call' = NoCall
    /\ cluster_unchanged
    /\ UNCHANGED <<status, shop_status, inventory, heartbeat_age, stats, rt>>

\* after the sleep: release the capacity, pop the queue, record the order
ProductionComplete(n) ==
    /\ rt.pc = "idle"
    /\ producing[n] # NoOrder
    /\ current_capacity' =
           release_capacity(current_capacity, n, total_quantity(producing[n]))
    /\ production_queue' = [production_queue EXCEPT ![n] = Tail(@)]
    /\ order_history' = [order_history EXCEPT ![n] = Append(@, producing[n].id)]
    /\ active_orders' = [active_orders EXCEPT ![n] =
                            [id \in DOMAIN @ \ {producing[n].id} |-> @[id]]]
    /\ producing' = [producing EXCEPT ![n] = NoOrder]
    /\ last_call' = NoCall
    /\ cluster_unchanged
    /\ UNCHANGED <<status, shop_status, inventory, heartbeat_age, stats, rt>>

(***************************************************************************)
(* OrderRouter.route_order, one step per tier.                             *)
(***************************************************************************)
SortedChoices == {f \in [Clusters -> UNION {SortedNodes(c) : c \in Clusters}] :
                     \A c \in Clusters : f[c] \in SortedNodes(c)}

RouteOrderBeginAtDirect(order) ==
    /\ rt.pc = "idle"
    /\ stats.total_orders < MaxRouted
    /\ stats' = [stats EXCEPT !.total_orders = @ + 1]
    /\ rt' = [pc |-> "direct",
              order |-> order,
              pre_capacity |-> current_capacity,
              pre_metrics |-> metrics,
              attempted |-> <<>>]
    /\ last_call' = NoCall
    /\ UNCHANGED current_capacity
    /\ node_unchanged /\ cluster_unchanged

RouteOrderBegin(order) ==
    /\ rt.pc = "idle"
    /\ stats.total_orders < MaxRouted
    /\ stats' = [stats EXCEPT !.total_orders = @ + 1]
    /\ rt' = [pc |-> IF Len(ClusterOrder) > 0 THEN "cluster" ELSE "direct",
              order |-> order,
              pre_capacity |-> current_capacity,
              pre_metrics |-> metrics,
              attempted |-> <<>>]
    /\ last_call' = NoCall
    /\ UNCHANGED current_capacity
    /\ node_unchanged /\ cluster_unchanged

\* the keys of RoutingResult.details of a successful tier
DetailKeys(routing_type) ==
    CASE routing_type = "cluster" -> {"routing_type", "cluster_id", "cluster_score"}
      [] routing_type = "direct_node" -> {"routing_type", "node_id", "node_score"}
      [] routing_type = "split_node" -> {"routing_type", "node_count"}
      [] OTHER -> {"routing_type", "cluster_count", "assigned_clusters"}

AfterTierPropagating(r, tier, next_pc) ==
    /\ current_capacity' = r.cap
    /\ metrics' = r.met
    /\ IF r.outcome = "success"
       THEN /\ stats' = [stats EXCEPT !.successful_routes = @ + 1]
            /\ rt' = [pc |-> "done", order |-> rt.order,
                      pre_capacity |-> rt.pre_capacity,
                      pre_metrics |-> rt.pre_metrics,
                      attempted |-> Append(rt.attempted, tier),
                      success |-> TRUE,
                      node_assignments |-> r.node_assignments,
                      routing_type |-> r.routing_type,
                      details |-> DetailKeys(r.routing_type)]
       ELSE IF r.outcome = "error"
       THEN /\ UNCHANGED stats
            /\ rt' = [pc |-> "done", order |-> rt.order,
                      pre_capacity |-> rt.pre_capacity,
                      pre_metrics |-> rt.pre_metrics,
                      attempted |-> Append(rt.attempted, tier),
                      success |-> FALSE,
                      node_assignments |-> NoAssignments,
                      routing_type |-> "none",
                      details |-> {}]
       ELSE IF next_pc = "done"
       THEN /\ stats' = [stats EXCEPT !.failed_routes = @ + 1]
            /\ rt' = [pc |-> "done", order |-> rt.order,
                      pre_capacity |-> rt.pre_capacity,
                      pre_metrics |-> rt.pre_metrics,
                      attempted |-> Append(rt.attempted, tier),
                      success |-> FALSE,
                      node_assignments |-> NoAssignments,
                      routing_type |-> "none",
                      details |-> {"error"}]
       ELSE /\ UNCHANGED stats
            /\ rt' = [rt EXCEPT !.pc = next_pc, !.attempted = Append(@, tier)]
    /\ last_call' = NoCall
    /\ node_unchanged
    /\ UNCHANGED <<nodes, router_clusters, clusters, network_metrics>>

AfterTierNoFailureCount(r, tier, next_pc) ==
    /\ current_capacity' = r.cap
    /\ metrics' = r.met
    /\ IF r.outcome = "success"
       THEN /\ stats' = [stats EXCEPT !.successful_routes = @ + 1]
            /\ rt' = [pc |-> "done", order |-> rt.order,
                      pre_capacity |-> rt.pre_capacity,
                      pre_metrics |-> rt.pre_metrics,
                      attempted |-> Append(rt.attempted, tier),
                      success |-> TRUE,
                      node_assignments |-> r.node_assignments,
                      routing_type |-> r.routing_type,
                      details |-> DetailKeys(r.routing_type)]
       ELSE IF r.outcome = "error" \/ next_pc = "done"
       THEN /\ UNCHANGED stats
            /\ rt' = [pc |-> "done", order |-> rt.order,
                      pre_capacity |-> rt.pre_capacity,
                      pre_metrics |-> rt.pre_metrics,
                      attempted |-> Append(rt.attempted, tier),
                      success |-> FALSE,
                      node_assignments |-> NoAssignments,
                      routing_type |-> "none",
                      details |-> {"error"}]
       ELSE /\ UNCHANGED stats
            /\ rt' = [rt EXCEPT !.pc = next_pc, !.attempted = Append(@, tier)]
    /\ last_call' = NoCall
    /\ node_unchanged
    /\ UNCHANGED <<nodes, router_clusters, clusters, network_metrics>>

\* what route_order does with the result of a tier: return it on success,
\* return the failure result when the tier raised or was the last one, go on
\* to the next tier otherwise
AfterTier(r, tier, next_pc) ==
    /\ current_capacity' = r.cap
    /\ metrics' = r.met
    /\ IF r.outcome = "success"
       THEN /\ stats' = [stats EXCEPT !.successful_routes = @ + 1]
            /\ rt' = [pc |-> "done", order |-> rt.order,
                      pre_capacity |-> rt.pre_capacity,
                      pre_metrics |-> rt.pre_metrics,
                      attempted |-> Append(rt.attempted, tier),
                      success |-> TRUE,
                      node_assignments |-> r.node_assignments,
                      routing_type |-> r.routing_type,
                      details |-> DetailKeys(r.routing_type)]
       ELSE IF r.outcome = "error" \/ next_pc = "done"
       THEN /\ stats' = [stats EXCEPT !.failed_routes = @ + 1]
            /\ rt' = [pc |-> "done", order |-> rt.order,
                      pre_capacity |-> rt.pre_capacity,
                      pre_metrics |-> rt.pre_metrics,
                      attempted |-> Append(rt.attempted, tier),
                      success |-> FALSE,
                      node_assignments |-> NoAssignments,
                      routing_type |-> "none",
                      details |-> {"error"}]
       ELSE /\ UNCHANGED stats
            /\ rt' = [rt EXCEPT !.pc = next_pc, !.attempted = Append(@, tier)]
    /\ last_call' = NoCall
    /\ node_unchanged
    /\ UNCHANGED <<nodes, router_clusters, clusters, network_metrics>>

TryClusterRouting ==
    /\ rt.pc = "cluster"
    /\ \E sorted_nodes \in SortedChoices :
          AfterTier(_try_cluster_routing(current_capacity, metrics, rt.order, sorted_nodes),
                    "cluster", "direct")

TryDirectNodeRouting ==
    /\ rt.pc = "direct"
    /\ AfterTier(_try_direct_node_routing(current_capacity, metrics, rt.order),
                 "direct", "split")

TrySplitNodeRouting ==
    /\ rt.pc = "split"
    /\ AfterTier(_try_split_node_routing(current_capacity, metrics, rt.order),
                 "split", IF Len(ClusterOrder) > 1 THEN "multi" ELSE "done")

TryMultiClusterRouting ==
    /\ rt.pc = "multi"
    /\ \E sorted_nodes \in SortedChoices :
          AfterTier(_try_multi_cluster_routing(current_capacity, metrics, rt.order,
                                               sorted_nodes),
                    "multi", "done")

\* router.get_routing_stats(): the three counters and the success rate, which
\* is 0 while no order was routed
get_routing_stats ==
    [total_orders |-> stats.total_orders,
     successful_routes |-> stats.successful_routes,
     failed_routes |-> stats.failed_routes,
     success_rate |-> IF stats.total_orders > 0
                      THEN Frac(stats.successful_routes, stats.total_orders)
                      ELSE Frac(0, 1)]

\* one round of the loop of score_shops, for a shop that passes the pre-check:
\* the four sub-scores and ten times their weighted total
ScoreShop(n, order) ==
    /\ rt.pc = "idle"
    /\ _can_possibly_fulfill(current_capacity, n, order)
    /\ last_call' = [op |-> "score_shops", result |-> TRUE, node |-> n,
                     items |-> order.items,
                     distance_score |->
                         _calculate_distance_score(location[n], order.customer_location),
                     capacity_score |-> _calculate_capacity_score(current_capacity, n, order),
                     inventory_score |-> _calculate_inventory_score(n, order),
                     capability_score |-> _calculate_capability_score(n, order),
                     score |-> NodeScore(current_capacity, n, order)]
    /\ node_unchanged /\ cluster_unchanged
    /\ UNCHANGED <<current_capacity, stats, rt>>

\* one round of the loop of optimize_cluster_assignment, for a cluster that
\* passes can_fulfill_order and an order that has items: the three sub-scores
\* and ten times their weighted total
ScoreCluster(c, order) ==
    /\ rt.pc = "idle"
    /\ can_fulfill_order(metrics, c, order)
    /\ required_capabilities(order) # {}
    /\ last_call' = [op |-> "optimize_cluster_assignment", result |-> TRUE, cluster |-> c,
                     items |-> order.items,
                     distance_score |->
                         _calculate_distance_score(center_location[c],
                                                   order.customer_location),
                     capacity_score |-> ClusterCapacityScore(current_capacity, c),
                     capability_score |-> ClusterCapabilityScore(c, order),
                     score |-> ClusterScore(current_capacity, c, order)]
    /\ node_unchanged /\ cluster_unchanged
    /\ UNCHANGED <<current_capacity, stats, rt>>

\* the caller has the result; the router is free for the next call
RouteOrderReturn ==
    /\ rt.pc = "done"
    /\ rt' = Idle
    /\ last_call' = NoCall
    /\ UNCHANGED <<current_capacity, stats>>
    /\ node_unchanged /\ cluster_unchanged

\* cluster.allocate_order(order), called directly as the cluster tests do
AllocateOrder(c, order) ==
    /\ rt.pc = "idle"
    /\ metrics[c].total_orders_processed < MaxRouted
    /\ \E sorted_nodes \in SortedNodes(c) :
          LET r == allocate_order(current_capacity, metrics, c, order, sorted_nodes)
          IN /\ current_capacity' = r.cap
             /\ metrics' = r.met
             /\ last_call' = [op |-> "allocate_order", result |-> r.ok]
    /\ node_unchanged
    /\ UNCHANGED <<nodes, stats, rt, router_clusters, clusters, network_metrics>>

\* node.state.last_heartbeat = datetime.now() - timedelta(seconds=300), as the
\* node test makes a heartbeat stale (time then moves on)
SetLastHeartbeat(n) ==
    /\ rt.pc = "idle"
    /\ heartbeat_age' = [heartbeat_age EXCEPT ![n] = node_timeout]
    /\ last_call' = NoCall
    /\ cluster_unchanged
    /\ UNCHANGED <<status, shop_status, current_capacity, inventory, production_queue,
                   active_orders, order_history, producing, stats, rt>>

\* one round of _heartbeat_loop: the node stamps last_heartbeat and publishes
\* its heartbeat; the loop runs whatever the status of the node
HeartbeatLoop(n) ==
    /\ rt.pc = "idle"
    /\ heartbeat_age' = [heartbeat_age EXCEPT ![n] = 0]
    /\ last_call' = [op |-> "heartbeat", result |-> TRUE, node |-> n]
    /\ cluster_unchanged
    /\ UNCHANGED <<status, shop_status, current_capacity, inventory, production_queue,
                   active_orders, order_history, producing, stats, rt>>

\* heartbeat_interval seconds pass
Tick ==
    /\ rt.pc = "idle"
    /\ \A n \in Nodes :
          heartbeat_age[n] + heartbeat_interval <= node_timeout + MaxAge * heartbeat_interval
    /\ heartbeat_age' = [n \in Nodes |-> heartbeat_age[n] + heartbeat_interval]
    /\ last_call' = NoCall
    /\ cluster_unchanged
    /\ UNCHANGED <<status, shop_status, current_capacity, inventory, production_queue,
                   active_orders, order_history, producing, stats, rt>>

\* is_healthy(max_heartbeat_age_seconds = 300)
is_healthy(n) == status[n] # "OFFLINE" /\ heartbeat_age[n] <= node_timeout

\* one round of _periodic_health_check: with a cluster registered the loop
\* reads self.protocol, which NetworkDiscovery never sets, and the round ends
\* in the except branch before _update_metrics; with none registered the loop
\* is empty and _update_metrics runs.  No status and no heartbeat stamp of a
\* node is read or written
PeriodicHealthCheck ==
    /\ rt.pc = "idle"
    /\ last_call' = [op |-> "health_check", result |-> clusters = {}]
    /\ network_metrics' = IF clusters = {} THEN _update_metrics(clusters, metrics)
                          ELSE network_metrics
    /\ node_unchanged
    /\ UNCHANGED <<nodes, metrics, router_clusters, clusters>>
    /\ UNCHANGED <<current_capacity, stats, rt>>

\* cluster._is_in_range(location)
_is_in_range(c, loc) == distance_to(center_location[c], loc) <= radius_miles

\* cluster.add_node(node): an in-range node joins the member set and its daily
\* capacity is added to both capacity metrics, member already or not
AddNode(c, n) ==
    /\ rt.pc = "idle"
    /\ metrics[c].total_capacity <= MaxTotal
    /\ IF _is_in_range(c, location[n])
       THEN /\ nodes' = [nodes EXCEPT ![c] = @ \cup {n}]
            /\ metrics' = [metrics EXCEPT
                              ![c].total_capacity = @ + daily_capacity[n],
                              ![c].available_capacity = @ + daily_capacity[n]]
            /\ last_call' = [op |-> "add_node", result |-> TRUE,
                             cluster |-> c, node |-> n]
       ELSE /\ UNCHANGED <<nodes, metrics>>
            /\ last_call' = [op |-> "add_node", result |-> FALSE,
                             cluster |-> c, node |-> n]
    /\ node_unchanged
    /\ UNCHANGED <<current_capacity, stats, rt, router_clusters, clusters,
                   network_metrics>>

\* cluster.remove_node(node): a member leaves and its daily capacity is
\* subtracted from both capacity metrics; anything else is ignored
RemoveNode(c, n) ==
    /\ rt.pc = "idle"
    /\ IF n \in nodes[c]
       THEN /\ nodes' = [nodes EXCEPT ![c] = @ \ {n}]
            /\ metrics' = [metrics EXCEPT
                              ![c].total_capacity = @ - daily_capacity[n],
                              ![c].available_capacity = @ - daily_capacity[n]]
            /\ last_call' = [op |-> "remove_node", result |-> TRUE,
                             cluster |-> c, node |-> n]
       ELSE /\ UNCHANGED <<nodes, metrics>>
            /\ last_call' = [op |-> "remove_node", result |-> FALSE,
                             cluster |-> c, node |-> n]
    /\ node_unchanged
    /\ UNCHANGED <<current_capacity, stats, rt, router_clusters, clusters,
                   network_metrics>>

\* discovery.add_cluster(cluster)
AddCluster(c) ==
    /\ rt.pc = "idle"
    /\ clusters' = clusters \cup {c}
    /\ network_metrics' = _update_metrics(clusters', metrics)
    /\ last_call' = [op |-> "add_cluster", result |-> TRUE, cluster |-> c]
    /\ node_unchanged
    /\ UNCHANGED <<current_capacity, stats, rt, nodes, metrics, router_clusters>>

\* discovery.remove_cluster(cluster_id)
RemoveCluster(c) ==
    /\ rt.pc = "idle"
    /\ clusters' = clusters \ {c}
    /\ network_metrics' = IF c \in clusters THEN _update_metrics(clusters', metrics)
                          ELSE network_metrics
    /\ last_call' = [op |-> "remove_cluster", result |-> c \in clusters, cluster |-> c]
    /\ node_unchanged
    /\ UNCHANGED <<current_capacity, stats, rt, nodes, metrics, router_clusters>>

\* discovery.find_cluster_by_location(location): the registered clusters whose
\* centre is nearest, whatever their radius
find_cluster_by_location(loc) ==
    {c \in clusters : \A d \in clusters :
        distance_to(center_location[c], loc) <= distance_to(center_location[d], loc)}

\* discovery.handle_cluster_formation_request(location): the nearest
\* registered cluster is returned as it is; with no cluster registered the
\* read of self.cluster_radius_miles, an attribute that is never set, raises
\* before any cluster is created
FormationRequest(loc) ==
    /\ rt.pc = "idle"
    /\ IF clusters # {}
       THEN \E c \in find_cluster_by_location(loc) :
               last_call' = [op |-> "formation_request", result |-> TRUE,
                             cluster |-> c, location |-> loc]
       ELSE last_call' = [op |-> "formation_request", result |-> FALSE,
                          cluster |-> "none", location |-> loc]
    /\ node_unchanged /\ cluster_unchanged
    /\ UNCHANGED <<current_capacity, stats, rt>>

\* order.add_status_update(new_status): the update is appended to the history
\* and the status is overwritten, whatever the status was
AddStatusUpdate(o, new_status) ==
    /\ rt.pc = "idle"
    /\ Len(order_status[o].status_history) < MaxHistory
    /\ order_status' = [order_status EXCEPT
                           ![o] = [status |-> new_status,
                                   status_history |-> Append(@.status_history, new_status)]]
    /\ last_call' = [op |-> "add_status_update", result |-> TRUE, order |-> o]
    /\ UNCHANGED <<status, shop_status, inventory, production_queue, active_orders,
                   order_history, producing, heartbeat_age, nodes, metrics,
                   router_clusters, clusters, current_capacity, stats, rt,
                   network_metrics, shop_assignments, assigned_shop_id>>
    /\ protocol_unchanged /\ transport_unchanged

(***************************************************************************)
(* Order.assign_to_shop on an order of MaxItems items.  The index list is  *)
(* stored under the shop id first; the loop then writes assigned_shop_id   *)
(* and production_status of every listed item whose index is in range.     *)
(* OrderItem is a pydantic model with frozen = True (pydantic 2.5.2 in     *)
(* setup.py), so the first such write raises and the call ends there: the  *)
(* entry in shop_assignments stays and no item changes.                    *)
(***************************************************************************)
MaxIndices == 2
ShopIds == {"shop-1", "shop-2"}
IndexLists == UNION {[1..k -> 0..MaxItems] : k \in 0..MaxIndices}
frozen == TRUE

\* the loop over item_indices, from position k on, on a model that allows the
\* writes: the items as the loop leaves them
RECURSIVE AssignLoop(_, _, _, _)
AssignLoop(items, shop_id, item_indices, k) ==
    IF k > Len(item_indices) THEN items
    ELSE LET idx == item_indices[k]
         IN IF idx < MaxItems
            THEN AssignLoop([items EXCEPT ![idx] = shop_id], shop_id, item_indices, k + 1)
            ELSE AssignLoop(items, shop_id, item_indices, k + 1)

AssignToShop(shop_id, item_indices) ==
    LET raises == frozen /\ \E k \in DOMAIN item_indices : item_indices[k] < MaxItems
    IN /\ rt.pc = "idle"
       /\ shop_assignments' = (shop_id :> item_indices) @@ shop_assignments
       /\ assigned_shop_id' = IF raises THEN assigned_shop_id
                              ELSE AssignLoop(assigned_shop_id, shop_id, item_indices, 1)
       /\ last_call' = [op |-> "assign_to_shop", result |-> ~raises, shop |-> shop_id]
       /\ UNCHANGED <<status, shop_status, inventory, production_queue, active_orders,
                      order_history, producing, heartbeat_age, nodes, metrics,
                      router_clusters, clusters, current_capacity, stats, rt,
                      network_metrics, order_status>>
       /\ protocol_unchanged /\ transport_unchanged

(***************************************************************************)
(* NetworkProtocol.send_message and handle_message of one protocol object. *)
(* A call for a request type stores a future under the message id and      *)
(* waits for it up to 5 seconds; the only handler that resolves a future   *)
(* is _handle_order_response, for an incoming ORDER_RESPONSE whose         *)
(* message id has an entry.  The finally clause removes the entry.         *)
(***************************************************************************)
RequestTypes == {"ORDER_REQUEST", "CAPACITY_QUERY", "INVENTORY_QUERY"}
SentTypes == RequestTypes \cup {"HEARTBEAT"}
IncomingTypes == {"ORDER_RESPONSE", "CAPACITY_UPDATE", "INVENTORY_UPDATE", "HEARTBEAT"}
Receivers == {"peer", "None"}

\* the type of the message the peer's handler builds for a request
\* (_handle_order_request, _handle_capacity_query, _handle_inventory_query)
reply_type(request_type) ==
    CASE request_type = "ORDER_REQUEST" -> "ORDER_RESPONSE"
      [] request_type = "CAPACITY_QUERY" -> "CAPACITY_UPDATE"
      [] request_type = "INVENTORY_QUERY" -> "INVENTORY_UPDATE"
      [] OTHER -> "None"

\* send_message up to its first wait: a broadcast and a message that expects
\* no response return None at once
SendMessage(id, type, receiver_id) ==
    /\ sends[id].pc # "waiting"
    /\ IF receiver_id # "None" /\ type \in RequestTypes
       THEN /\ pending_responses' =
                   (id :> [done |-> FALSE, result |-> NoMessage]) @@ pending_responses
            /\ sends' = [sends EXCEPT ![id] =
                             [pc |-> "waiting", type |-> type, replied |-> FALSE,
                              timed_out |-> FALSE, value |-> NoMessage]]
       ELSE /\ UNCHANGED pending_responses
            /\ sends' = [sends EXCEPT ![id] =
                             [pc |-> "returned", type |-> "None", replied |-> FALSE,
                              timed_out |-> FALSE, value |-> NoMessage]]
    /\ network_unchanged /\ transport_unchanged
    /\ UNCHANGED last_call

\* handle_message(message) for an incoming message: an ORDER_RESPONSE sets the
\* result of the pending future of its message id; the handlers of the other
\* types touch no future.  sends records that the reply the peer builds for
\* the waiting request of that id has come in
HandleMessage(type, id) ==
    /\ pending_responses' =
           IF type = "ORDER_RESPONSE" /\ id \in DOMAIN pending_responses
              /\ ~pending_responses[id].done
           THEN [pending_responses EXCEPT
                    ![id] = [done |-> TRUE,
                             result |-> [type |-> type, message_id |-> id]]]
           ELSE pending_responses
    /\ sends' = IF sends[id].pc = "waiting" /\ type = reply_type(sends[id].type)
                THEN [sends EXCEPT ![id].replied = TRUE]
                ELSE sends
    /\ network_unchanged /\ transport_unchanged
    /\ UNCHANGED last_call

\* wait_for returns the result of the future; finally pops the entry
WaitForResult(id) ==
    /\ sends[id].pc = "waiting"
    /\ pending_responses[id].done
    /\ sends' = [sends EXCEPT ![id].pc = "returned",
                              ![id].value = pending_responses[id].result]
    /\ pending_responses' =
           [k \in DOMAIN pending_responses \ {id} |-> pending_responses[k]]
    /\ network_unchanged /\ transport_unchanged
    /\ UNCHANGED last_call

\* the 5 seconds pass with the future unresolved: None is returned; finally
\* pops the entry
WaitForTimeout(id) ==
    /\ sends[id].pc = "waiting"
    /\ ~pending_responses[id].done
    /\ sends' = [sends EXCEPT ![id].pc = "returned", ![id].timed_out = TRUE,
                              ![id].value = NoMessage]
    /\ pending_responses' =
           [k \in DOMAIN pending_responses \ {id} |-> pending_responses[k]]
    /\ network_unchanged /\ transport_unchanged
    /\ UNCHANGED last_call

(***************************************************************************)
(* InMemoryMessageTransport.  publish appends the message to               *)
(* published_messages[topic], stamps it with the topic and the running     *)
(* message count, and runs _execute_callback for every callback in         *)
(* _subscribers[topic] under gather; _execute_callback catches what the    *)
(* callback raises.  _message_count is the number of messages published    *)
(* so far, the total length of the lists of published_messages.            *)
(***************************************************************************)
MaxPublished == 2
Messages == {"a", "b"}
\* the callbacks that raise when they are invoked
Raising == {"cb2"}

RECURSIVE CountPublished(_)
CountPublished(S) ==
    IF S = {} THEN 0
    ELSE LET t == CHOOSE x \in S : TRUE
         IN Len(published_messages[t]) + CountPublished(S \ {t})

\* the callbacks' records after gather over the tasks of the callbacks cbs, if
\* the error of a callback ended the delivery to the others
GatherUntilRaise(rec, cbs, entry) ==
    LET invoked == IF cbs \cap Raising # {} THEN cbs \cap Raising ELSE cbs
    IN [cb \in Callbacks |-> IF cb \in invoked THEN Append(rec[cb], entry) ELSE rec[cb]]

\* the callbacks' records after gather over the tasks of the callbacks cbs:
\* each is invoked once with a copy of the message, raising or not
Gather(rec, cbs, entry) ==
    [cb \in Callbacks |-> IF cb \in cbs THEN Append(rec[cb], entry) ELSE rec[cb]]

Publish(topic, message) ==
    LET entry == [topic |-> topic, message |-> message,
                  message_id |-> CountPublished(Topics) + 1]
    IN /\ CountPublished(Topics) < MaxPublished
       /\ published_messages' = [published_messages EXCEPT ![topic] = Append(@, entry)]
       /\ received' = Gather(received, subscribers[topic], entry)
       /\ last_call' = [op |-> "publish", result |-> subscribers[topic] # {},
                        topic |-> topic]
       /\ UNCHANGED subscribers
       /\ network_unchanged /\ protocol_unchanged

Subscribe(topic, callback) ==
    /\ subscribers' = [subscribers EXCEPT ![topic] = @ \cup {callback}]
    /\ last_call' = [op |-> "subscribe", result |-> TRUE, topic |-> topic]
    /\ UNCHANGED <<published_messages, received>>
    /\ network_unchanged /\ protocol_unchanged

Unsubscribe(topic, callback) ==
    /\ subscribers' = [subscribers EXCEPT ![topic] = @ \ {callback}]
    /\ last_call' = [op |-> "unsubscribe", result |-> TRUE, topic |-> topic]
    /\ UNCHANGED <<published_messages, received>>
    /\ network_unchanged /\ protocol_unchanged

(***************************************************************************)
(* Order.estimated_production_time, in hundredths of an hour: the base     *)
(* time of 24.0 hours times the multiplier of the priority (1.5, 1.0,      *)
(* 0.75, 0.5), times 1.5 for more than 100 items.  Every product is exact  *)
(* in binary floating point (36, 24, 18, 12 and 54, 36, 27, 18 hours).     *)
(***************************************************************************)
OrderPriority == {"LOW", "NORMAL", "HIGH", "RUSH"}
base_time == 24
large_order_items == 100
priority_multipliers ==
    [p \in OrderPriority |->
        CASE p = "LOW" -> 150 [] p = "NORMAL" -> 100 [] p = "HIGH" -> 75 [] OTHER -> 50]

estimated_production_time_flat_large(priority, items) ==
    LET total_items == SumQty(items)
        time_estimate == base_time * priority_multipliers[priority]
    IN IF total_items > large_order_items
       THEN (base_time * priority_multipliers["NORMAL"] * 15) \div 10
       ELSE time_estimate

estimated_production_time(priority, items) ==
    LET total_items == SumQty(items)
        time_estimate == base_time * priority_multipliers[priority]
    IN IF total_items > large_order_items
       THEN (time_estimate * 15) \div 10
       ELSE time_estimate

\* item lists of small items and of items around the large-order threshold
EstimateQuantities ==
    (1..MaxQty) \cup ((large_order_items - MaxQty)..(large_order_items + MaxQty))
EstimateItems ==
    {<<[product_type |-> "tshirt", quantity |-> q, sku |-> NoSku]>> : q \in EstimateQuantities}
    \cup {<<[product_type |-> "tshirt", quantity |-> q1, sku |-> NoSku],
            [product_type |-> "mug", quantity |-> q2, sku |-> NoSku]>> :
              q1 \in EstimateQuantities, q2 \in EstimateQuantities}

\* estimated_production_time() of an order of the given priority, and of the
\* orders that differ from it in the priority alone
EstimateProductionTime(priority, items) ==
    /\ rt.pc = "idle"
    /\ last_call' = [op |-> "estimated_production_time", result |-> TRUE,
                     priority |-> priority, items |-> items,
                     total_items |-> SumQty(items),
                     time |-> estimated_production_time(priority, items),
                     times |-> [p \in OrderPriority |-> estimated_production_time(p, items)]]
    /\ node_unchanged /\ cluster_unchanged
    /\ UNCHANGED <<current_capacity, stats, rt>>

(***************************************************************************)
(* RoutingResult.estimated_time of a successful tier, in hundredths of an  *)
(* hour: the order's estimate for the cluster and direct-node tiers, times *)
(* 1.2 for the split-node tier and times 1.3 for the multi-cluster tier.   *)
(* The products are 12 to 54 hours times 1.2 or 1.3; the rounding of the   *)
(* floating-point product is below 1e-13 hours.                            *)
(***************************************************************************)
RoutingTypes == {"cluster", "direct_node", "split_node", "multi_cluster"}
split_node_penalty == 12
multi_cluster_penalty == 13

estimated_time_stacked_penalties(routing_type, priority, items) ==
    LET t == estimated_production_time(priority, items)
    IN CASE routing_type = "split_node" -> (t * multi_cluster_penalty) \div 10
         [] routing_type = "multi_cluster" ->
                (t * multi_cluster_penalty * multi_cluster_penalty) \div 100
         [] OTHER -> t

estimated_time(routing_type, priority, items) ==
    LET t == estimated_production_time(priority, items)
    IN CASE routing_type = "split_node" -> (t * split_node_penalty) \div 10
         [] routing_type = "multi_cluster" -> (t * multi_cluster_penalty) \div 10
         [] OTHER -> t

\* the estimated_time of the result a tier returns on success, for an order of
\* the given priority and items
RoutingResultEstimate(routing_type, priority, items) ==
    /\ rt.pc = "idle"
    /\ last_call' = [op |-> "estimated_time", result |-> TRUE,
                     routing_type |-> routing_type,
                     priority |-> priority, items |-> items,
                     total_items |-> SumQty(items),
                     time |-> estimated_time(routing_type, priority, items)]
    /\ node_unchanged /\ cluster_unchanged
    /\ UNCHANGED <<current_capacity, stats, rt>>

(***************************************************************************)
(* Location.distance_to on a grid of latitudes and longitudes.  The        *)
(* haversine term a = sin(dlat/2)^2 + cos(lat1) cos(lat2) sin(dlon/2)^2 is *)
(* kept in its structure: hav stands for sin(x/2)^2, an even function that *)
(* is 0 at 0, and cos_lat for the cosine of a latitude; R * 2 asin(sqrt a) *)
(* is increasing in a and 0 at 0, and a itself stands for it.              *)
(***************************************************************************)
GridLocations == [latitude : (-MaxCoord)..MaxCoord, longitude : (-MaxCoord)..MaxCoord]
hav(x) == x * x
cos_lat(lat) == MaxCoord + 1 - Abs(lat)

haversine_own_latitude(self, other) ==
    LET dlat == other.latitude - self.latitude
        dlon == other.longitude - self.longitude
    IN hav(dlat) + cos_lat(self.latitude) * cos_lat(self.latitude) * hav(dlon)

haversine(self, other) ==
    LET dlat == other.latitude - self.latitude
        dlon == other.longitude - self.longitude
    IN hav(dlat) + cos_lat(self.latitude) * cos_lat(other.latitude) * hav(dlon)

\* A.distance_to(B), B.distance_to(A) and A.distance_to(A)
DistanceTo(A, B) ==
    /\ rt.pc = "idle"
    /\ last_call' = [op |-> "distance_to", result |-> TRUE, a |-> A, b |-> B,
                     ab |-> haversine(A, B), ba |-> haversine(B, A),
                     aa |-> haversine(A, A)]
    /\ node_unchanged /\ cluster_unchanged
    /\ UNCHANGED <<current_capacity, stats, rt>>

MembershipNext ==
    \/ \E c \in Clusters, n \in Nodes : AddNode(c, n)
    \/ \E c \in Clusters, n \in Nodes : RemoveNode(c, n)

DiscoveryNext ==
    \/ \E c \in Clusters : AddCluster(c)
    \/ \E c \in Clusters : RemoveCluster(c)
    \/ \E n \in Nodes : FormationRequest(location[n])

RouterNext ==
    \/ \E o \in RoutedOrders : RouteOrderBegin(o)
    \/ TryClusterRouting
    \/ TryDirectNodeRouting
    \/ TrySplitNodeRouting
    \/ TryMultiClusterRouting
    \/ RouteOrderReturn

CapacityNext ==
    \/ \E n \in Nodes, q \in 1..MaxQty : ReserveCapacity(n, q)
    \/ \E n \in Nodes, q \in 1..MaxQty : ReleaseCapacity(n, q)

OrderNext ==
    \/ \E n \in Nodes, o \in HandledOrders : HandleOrder(n, o)
    \/ \E n \in Nodes : ProductionStart(n)
    \/ \E n \in Nodes : ProductionComplete(n)

EnvNext ==
    \/ \E n \in Nodes, s \in ShopStatus : UpdateStatus(n, s)
    \/ \E n \in Nodes, sku \in Skus, q \in 0..MaxInv : UpdateInventory(n, sku, q)

\* the router, direct capacity calls and the nodes' order handling
Next == RouterNext \/ CapacityNext \/ OrderNext

Spec == Init /\ [][Next]_vars

\* the router under changes of node status and inventory, with orders handed
\* to the nodes directly
NextEnv ==
    \/ RouterNext
    \/ EnvNext
    \/ \E n \in Nodes, o \in HandledOrders : HandleOrder(n, o)

SpecEnv == Init /\ [][NextEnv]_vars

\* direct calls of the cluster and of the nodes under changes of node status
NextCluster ==
    \/ \E n \in Nodes, q \in 1..MaxQty : ReserveCapacity(n, q)
    \/ EnvNext
    \/ \E c \in Clusters, o \in AllocatedOrders : AllocateOrder(c, o)

SpecCluster == Init /\ [][NextCluster]_vars

\* status updates of the orders while the nodes accept and produce them
NextLifecycle ==
    \/ \E o \in OrderIds, s \in OrderStatus : AddStatusUpdate(o, s)
    \/ OrderNext

SpecLifecycle == Init /\ [][NextLifecycle]_vars

\* scoring of nodes and clusters under changes of inventory and capacity
ScoredOrders == {o \in Orders : o.id = "o1"}

NextScore ==
    \/ \E n \in Nodes, sku \in Skus, q \in 0..MaxInv : UpdateInventory(n, sku, q)
    \/ \E n \in Nodes, q \in 1..MaxQty : ReserveCapacity(n, q)
    \/ \E n \in Nodes, o \in ScoredOrders : ScoreShop(n, o)
    \/ \E c \in Clusters, o \in ScoredOrders : ScoreCluster(c, o)

SpecScore == Init /\ [][NextScore]_vars

\* shop assignments of one order, any sequence of assign_to_shop calls
NextAssignment ==
    \E shop_id \in ShopIds, item_indices \in IndexLists : AssignToShop(shop_id, item_indices)

SpecAssignment == Init /\ [][NextAssignment]_vars

\* production-time estimates of orders that differ in the priority alone
NextEstimate ==
    \E p \in OrderPriority, items \in EstimateItems : EstimateProductionTime(p, items)

SpecEstimate == Init /\ [][NextEstimate]_vars

\* requests sent through one protocol object and the messages that come in
NextProtocol ==
    \/ \E id \in MessageIds, type \in SentTypes, receiver_id \in Receivers :
          SendMessage(id, type, receiver_id)
    \/ \E type \in IncomingTypes, id \in MessageIds : HandleMessage(type, id)
    \/ \E id \in MessageIds : WaitForResult(id)
    \/ \E id \in MessageIds : WaitForTimeout(id)

SpecProtocol == Init /\ [][NextProtocol]_vars

\* publications through the in-memory transport between subscriptions
NextTransport ==
    \/ \E t \in Topics, m \in Messages : Publish(t, m)
    \/ \E t \in Topics, cb \in Callbacks : Subscribe(t, cb)
    \/ \E t \in Topics, cb \in Callbacks : Unsubscribe(t, cb)

SpecTransport == Init /\ [][NextTransport]_vars

\* the time estimates of the results of the four tiers
NextRush ==
    \E t \in RoutingTypes, p \in OrderPriority, items \in EstimateItems :
        RoutingResultEstimate(t, p, items)

SpecRush == Init /\ [][NextRush]_vars

\* distances between the locations of a grid
NextDistance == \E A \in GridLocations, B \in GridLocations : DistanceTo(A, B)

SpecDistance == Init /\ [][NextDistance]_vars

\* cluster membership and discovery
NextMembership == MembershipNext \/ DiscoveryNext

SpecMembership == Init /\ [][NextMembership]_vars

\* registrations of nodes into clusters and of clusters into the registry,
\* with the periodic health check of the registry
NextNetwork ==
    \/ \E c \in Clusters, n \in Nodes : AddNode(c, n)
    \/ \E c \in Clusters : AddCluster(c)
    \/ \E c \in Clusters : RemoveCluster(c)
    \/ PeriodicHealthCheck

SpecNetwork == Init /\ [][NextNetwork]_vars

\* membership changes of the registered clusters between their allocations
NextAllocation ==
    \/ \E c \in clusters, n \in Nodes : AddNode(c, n)
    \/ \E c \in clusters, n \in Nodes : RemoveNode(c, n)
    \/ \E c \in clusters, o \in AllocatedOrders : AllocateOrder(c, o)

SpecAllocation == Init /\ [][NextAllocation]_vars

\* direct calls of a node's capacity operations under changes of its status
NextNode ==
    \/ CapacityNext
    \/ \E n \in Nodes, s \in ShopStatus : UpdateStatus(n, s)

SpecNode == Init /\ [][NextNode]_vars

\* the router when the status of a shop profile is set
NextProfile ==
    \/ RouterNext
    \/ CapacityNext
    \/ \E n \in Nodes, s \in ShopStatus : SetShopStatus(n, s)

SpecProfile == Init /\ [][NextProfile]_vars

\* the router for every list of clusters it can be given, with direct
\* reservations on the nodes
InitTiers ==
    /\ InitNetwork
    /\ router_clusters \in {<<>>, <<"c1">>, <<"c2">>, RouterClusters}

NextTiers ==
    \/ RouterNext
    \/ \E n \in Nodes, q \in 1..MaxQty : ReserveCapacity(n, q)

SpecTiers == InitTiers /\ [][NextTiers]_vars

\* the router given orders larger than a node, with direct reservations
NextLarge ==
    \/ \E o \in LargeOrders : RouteOrderBegin(o)
    \/ TryClusterRouting
    \/ TryDirectNodeRouting
    \/ TrySplitNodeRouting
    \/ TryMultiClusterRouting
    \/ RouteOrderReturn
    \/ \E n \in Nodes, q \in 1..MaxQty : ReserveCapacity(n, q)

SpecLarge == Init /\ [][NextLarge]_vars

\* a router constructed without clusters, with direct reservations on the
\* nodes and the nodes' production loops
InitDirect == InitNetwork /\ router_clusters = <<>>

NextDirect ==
    \/ \E o \in {x \in RoutedOrders : x.items # <<>>} : RouteOrderBegin(o)
    \/ TryDirectNodeRouting
    \/ TrySplitNodeRouting
    \/ RouteOrderReturn
    \/ \E n \in Nodes, q \in 1..MaxQty : ReserveCapacity(n, q)
    \/ OrderNext

SpecDirect == InitDirect /\ [][NextDirect]_vars

\* one node after another is handed orders (an order id may come again) while
\* the production loops run
NextProduction ==
    \/ \E n \in Nodes, o \in HandledOrders : HandleOrderUpTo(n, o, MaxSubmitted)
    \/ \E n \in Nodes : ProductionStart(n)
    \/ \E n \in Nodes : ProductionComplete(n)

SpecProduction == Init /\ [][NextProduction]_vars

\* nodes that are stopped or change status while they hold an order
NextOffline ==
    \/ \E n \in Nodes, o \in HandledOrders : HandleOrderUpTo(n, o, MaxSubmitted)
    \/ \E n \in Nodes, st \in ShopStatus : UpdateStatus(n, st)
    \/ \E n \in Nodes : Stop(n)
    \/ \E n \in Nodes : ProductionStart(n)
    \/ \E n \in Nodes : ProductionComplete(n)

SpecOffline == Init /\ [][NextOffline]_vars

SpecOfflineFair ==
    /\ SpecOffline
    /\ \A n \in Nodes : WF_vars(ProductionStart(n)) /\ WF_vars(ProductionComplete(n))

\* the production loop of every node is an asyncio task that is scheduled
\* again after each of its sleeps
SpecProductionFair ==
    /\ SpecProduction
    /\ \A n \in Nodes : WF_vars(ProductionStart(n)) /\ WF_vars(ProductionComplete(n))

\* heartbeats and health checks
NextHealth ==
    \/ Tick
    \/ PeriodicHealthCheck
    \/ \E n \in Nodes : HeartbeatLoop(n)
    \/ \E n \in Nodes : SetLastHeartbeat(n)
    \/ \E n \in Nodes, s \in ShopStatus : UpdateStatus(n, s)

SpecHealth == Init /\ [][NextHealth]_vars

(***************************************************************************)
(* Properties.                                                             *)
(***************************************************************************)

\* C1: every node's current capacity stays between 0 and its daily capacity
\* under any interleaving of reserve, release, handle_order, production
\* completion and router calls, and a release of q leaves the node at
\* min(daily_capacity, capacity before + q)
CapacityInvariant ==
    /\ \A n \in Nodes :
          0 <= current_capacity[n] /\ current_capacity[n] <= daily_capacity[n]
    /\ last_call.op = "release_capacity" =>
          current_capacity[last_call.node] =
              Min(daily_capacity[last_call.node], last_call.before + last_call.quantity)

\* a release larger than what was reserved has been clamped at the daily capacity
OversizedRelease ==
    /\ last_call.op = "release_capacity"
    /\ last_call.before + last_call.quantity > daily_capacity[last_call.node]
    /\ current_capacity[last_call.node] = daily_capacity[last_call.node]

\* C2: an allocate_order call that returns None leaves the capacity of every
\* node and the metrics of every cluster as they were before the call
AllocationAtomicity ==
    [][(last_call'.op = "allocate_order" /\ ~last_call'.result) =>
          (current_capacity' = current_capacity /\ metrics' = metrics)]_vars

\* allocate_order has returned None in a cluster where a member had already
\* given away part of its capacity
AllocationReturnedNone ==
    /\ last_call.op = "allocate_order"
    /\ ~last_call.result
    /\ \E n \in Nodes : current_capacity[n] < daily_capacity[n]

\* C3: when route_order returns success = false, every node's capacity and
\* every cluster's metrics equal their values before the call
RoutingFailureRestores ==
    (rt.pc = "done" /\ ~rt.success) =>
        (current_capacity = rt.pre_capacity /\ metrics = rt.pre_metrics)

MultiClusterRollback ==
    [][(TryMultiClusterRouting /\ rt'.pc = "done" /\ ~rt'.success) =>
          (current_capacity' = current_capacity /\ metrics' = metrics)]_vars

\* C6: in every successful routing result each item index of the order is in
\* the list of exactly one node, once, and the lists hold no other index
ItemExclusivity ==
    (rt.pc = "done" /\ rt.success) =>
        /\ \A i \in 1..Len(rt.order.items) :
              Cardinality({n \in DOMAIN rt.node_assignments :
                              i \in Range(rt.node_assignments[n])}) = 1
        /\ \A n \in DOMAIN rt.node_assignments :
              /\ Range(rt.node_assignments[n]) \subseteq 1..Len(rt.order.items)
              /\ \A j, k \in DOMAIN rt.node_assignments[n] :
                    j # k => rt.node_assignments[n][j] # rt.node_assignments[n][k]

\* C7: whatever the interleaving of route_order and handle_order calls, a
\* step that takes capacity from a node takes no more than the node has at
\* that moment, from a node that is ONLINE
NoJointOverReservation ==
    [][\A n \in Nodes :
          current_capacity'[n] < current_capacity[n] =>
              /\ status[n] = "ONLINE"
              /\ current_capacity[n] - current_capacity'[n] <= current_capacity[n]
              /\ current_capacity'[n] >= 0]_vars

\* a route_order and a handle_order have both reserved on one node and have
\* used up its capacity
RouteAndHandleOnOneNode ==
    /\ rt.pc = "done"
    /\ rt.success
    /\ \E n \in DOMAIN rt.node_assignments :
          production_queue[n] # <<>> /\ current_capacity[n] = 0

\* C8: reserve_capacity(q) returns true and takes exactly q when the node is
\* ONLINE and has at least q; otherwise it returns false and changes nothing
ReserveCapacityContract ==
    [][\A n \in Nodes, q \in 1..MaxQty :
          ReserveCapacity(n, q) =>
              IF status[n] = "ONLINE" /\ current_capacity[n] >= q
              THEN /\ last_call'.result
                   /\ current_capacity' = [current_capacity EXCEPT ![n] = @ - q]
              ELSE /\ ~last_call'.result
                   /\ current_capacity' = current_capacity]_vars

\* a node that is not ONLINE has refused a reservation at full capacity
RefusedWhileNotOnline ==
    /\ last_call.op = "reserve_capacity"
    /\ ~last_call.result
    /\ status[last_call.node] \in {"OFFLINE", "MAINTENANCE", "LIMITED"}
    /\ current_capacity[last_call.node] = daily_capacity[last_call.node]

\* C9: a route_order call made while the shop profile of a node is marked
\* OFFLINE does not list that node in node_assignments
OfflineExclusion ==
    (rt.pc = "done" /\ rt.success) =>
        \A n \in DOMAIN rt.node_assignments : shop_status[n] # "OFFLINE"

\* C10: a node whose last heartbeat is older than the node timeout and that
\* is not OFFLINE is OFFLINE after the next round of the health check
HealthTransition ==
    [][PeriodicHealthCheck =>
          \A n \in Nodes :
              (heartbeat_age[n] > node_timeout /\ status[n] # "OFFLINE") =>
                  status'[n] = "OFFLINE"]_vars

\* the tiers that apply to the router's list of clusters, in the order of
\* route_order
ApplicableTiers ==
    (IF Len(router_clusters) > 0 THEN <<"cluster">> ELSE <<>>)
        \o <<"direct", "split">>
        \o (IF Len(router_clusters) > 1 THEN <<"multi">> ELSE <<>>)

TierOfType ==
    [t \in {"cluster", "direct_node", "split_node", "multi_cluster"} |->
        CASE t = "cluster" -> "cluster" [] t = "direct_node" -> "direct"
          [] t = "split_node" -> "split" [] OTHER -> "multi"]

\* C11: when route_order returns, the tiers it attempted are the applicable
\* tiers in their order up to the one that ended the call; a successful result
\* comes from the last tier attempted, and a call in which no tier succeeded and
\* none raised attempted every applicable tier
TierOrder ==
    rt.pc = "done" =>
        /\ rt.attempted # <<>>
        /\ Len(rt.attempted) <= Len(ApplicableTiers)
        /\ rt.attempted = SubSeq(ApplicableTiers, 1, Len(rt.attempted))
        /\ rt.success => TierOfType[rt.routing_type] = rt.attempted[Len(rt.attempted)]
        /\ (~rt.success /\ rt.order.items # <<>>) => rt.attempted = ApplicableTiers

\* a direct-node result has been returned after the cluster tier failed
DirectAfterClusterFailed ==
    /\ rt.pc = "done"
    /\ rt.success
    /\ rt.routing_type = "direct_node"
    /\ rt.attempted = <<"cluster", "direct">>

RECURSIVE SumAssigned(_, _, _)
SumAssigned(order, assignments, S) ==
    IF S = {} THEN 0
    ELSE LET n == CHOOSE x \in S : TRUE
         IN SumIdxQty(order, assignments[n]) + SumAssigned(order, assignments, S \ {n})

\* C12: an order whose total quantity exceeds the capacity of every node but
\* not the combined capacity of the online nodes that have its product types
\* is routed successfully, to more than one node, with the assigned
\* quantities adding up to the requested quantity
SplitCoverage ==
    (/\ rt.pc = "done"
     /\ \A n \in Nodes : total_quantity(rt.order) > rt.pre_capacity[n]
     /\ total_quantity(rt.order) <=
            SumCap(rt.pre_capacity,
                   {n \in Nodes : /\ status[n] = "ONLINE"
                                  /\ required_capabilities(rt.order) \subseteq capabilities[n]}))
    => /\ rt.success
       /\ Cardinality(DOMAIN rt.node_assignments) > 1
       /\ SumAssigned(rt.order, rt.node_assignments, DOMAIN rt.node_assignments)
             = total_quantity(rt.order)

\* C13: when route_order returns success, the order id is in the active
\* orders of every node listed in node_assignments
RoutedOrdersActive ==
    (rt.pc = "done" /\ rt.success) =>
        \A n \in DOMAIN rt.node_assignments : rt.order.id \in DOMAIN active_orders[n]

\* C14: with the production loops scheduled fairly, every accepted order
\* eventually leaves production_queue and active_orders, and the node is
\* then back at its daily capacity
ProductionLiveness ==
    \A n \in Nodes :
        (production_queue[n] # <<>>) ~>
            (/\ production_queue[n] = <<>>
             /\ active_orders[n] = <<>>
             /\ order_history[n] # <<>>
             /\ current_capacity[n] = daily_capacity[n])

\* the conditions under which a node rejects an order
MustReject(n, order) ==
    \/ status[n] # "ONLINE"
    \/ current_capacity[n] < total_quantity(order)
    \/ \E i \in DOMAIN order.items :
          \/ order.items[i].product_type \notin capabilities[n]
          \/ /\ order.items[i].sku \in DOMAIN inventory[n]
             /\ inventory[n][order.items[i].sku] < order.items[i].quantity
    \/ Len(production_queue[n]) >= max_queue_size

AcceptedOrdersQueued ==
    [][\A n \in Nodes, o \in HandledOrders :
          (HandleOrderUpTo(n, o, MaxSubmitted) /\ last_call'.result) =>
              /\ production_queue'[n] = Append(production_queue[n], o.id)
              /\ o.id \in DOMAIN active_orders'[n]
              /\ active_orders'[n][o.id] = o
              /\ current_capacity'[n] = current_capacity[n] - total_quantity(o)
              /\ \A m \in Nodes \ {n} : current_capacity'[m] = current_capacity[m]]_vars

\* a node has accepted two orders and holds the sum of their quantities
TwoOrdersAccepted ==
    \E n \in Nodes :
        /\ Len(production_queue[n]) = 2
        /\ last_call.op = "handle_order" /\ last_call.result /\ last_call.node = n
        /\ production_queue[n][1] # production_queue[n][2]
        /\ daily_capacity[n] - current_capacity[n] =
               total_quantity(active_orders[n][production_queue[n][1]])
                   + total_quantity(active_orders[n][production_queue[n][2]])

\* C17: the total capacity of a cluster is the sum of the daily capacities of
\* its members (0 for an empty cluster), whatever nodes were offered or removed
TotalCapacityIsMemberSum ==
    \A c \in Clusters : metrics[c].total_capacity = SumDaily(nodes[c])

\* C18: the available capacity of a cluster is never negative
AvailableCapacityNonNegative ==
    \A c \in Clusters : metrics[c].available_capacity >= 0

\* C20: every node is a member of at most one cluster
SingleMembership ==
    \A n \in Nodes : \A c, d \in Clusters :
        (n \in nodes[c] /\ n \in nodes[d]) => c = d

RECURSIVE SumCurrent(_)
SumCurrent(S) ==
    IF S = {} THEN 0
    ELSE LET n == CHOOSE x \in S : TRUE IN current_capacity[n] + SumCurrent(S \ {n})

\* C19: whenever no routing call is in progress, the available capacity of a
\* cluster equals the sum of the current capacities of its members
AvailableTracksHeadroom ==
    rt.pc = "idle" =>
        \A c \in Clusters : metrics[c].available_capacity = SumCurrent(nodes[c])

\* C21: a formation request for a location returns the nearest registered
\* cluster whose centre is within the cluster radius of that location, and
\* registers a new cluster centred at the location when no registered
\* cluster's centre is within the radius
GeographicFormation ==
    [][last_call'.op = "formation_request" =>
          LET loc == last_call'.location
              near == {c \in clusters : distance_to(center_location[c], loc) <= radius_miles}
          IN  IF near # {}
              THEN /\ last_call'.result
                   /\ last_call'.cluster \in near
                   /\ \A d \in near : distance_to(center_location[last_call'.cluster], loc)
                                          <= distance_to(center_location[d], loc)
                   /\ clusters' = clusters
              ELSE \E c \in clusters' \ clusters : center_location[c] = loc]_vars

\* position of a status in the lifecycle
LifecycleRank(s) ==
    CASE s = "CREATED" -> 0 [] s = "ASSIGNED" -> 1 [] s = "IN_PRODUCTION" -> 2 [] OTHER -> 3

\* C22: the status of an order never moves to an earlier stage of CREATED,
\* ASSIGNED, IN_PRODUCTION, COMPLETED or FAILED, and a COMPLETED or FAILED
\* order keeps its status
MonotonicLifecycle ==
    [][\A o \in OrderIds :
          /\ LifecycleRank(order_status'[o].status) >= LifecycleRank(order_status[o].status)
          /\ order_status[o].status \in {"COMPLETED", "FAILED"} =>
                 order_status'[o].status = order_status[o].status]_vars

\* C23: a route_order call that ends without a successful tier, an exception
\* raised inside a tier included, returns success = false with no node
\* assignments and an error entry in details, adds one to failed_routes and
\* leaves successful_routes as it was
TerminalFailureResult ==
    [][(rt.pc \notin {"idle", "done"} /\ rt'.pc = "done" /\ ~rt'.success) =>
          /\ rt'.node_assignments = NoAssignments
          /\ "error" \in rt'.details
          /\ stats'.failed_routes = stats.failed_routes + 1
          /\ stats'.successful_routes = stats.successful_routes
          /\ stats'.total_orders = stats.total_orders]_vars

\* the cluster tier raised and the call returned the failure result
FailedOnException ==
    /\ rt.pc = "done" /\ ~rt.success
    /\ rt.attempted = <<"cluster">>
    /\ stats.failed_routes = 1 /\ stats.successful_routes = 0

\* C24: for orders that differ in the priority alone the estimated production
\* time of RUSH is below that of HIGH, which is below that of NORMAL, which is
\* below that of LOW, for at most 100 items and for more than 100 items
PriorityOrdering ==
    last_call.op = "estimated_production_time" =>
        /\ last_call.times["RUSH"] < last_call.times["HIGH"]
        /\ last_call.times["HIGH"] < last_call.times["NORMAL"]
        /\ last_call.times["NORMAL"] < last_call.times["LOW"]
        /\ last_call.time = last_call.times[last_call.priority]

\* an estimate of an order of more than 100 items, which carries the factor 1.5
LargeOrderEstimated ==
    /\ last_call.op = "estimated_production_time"
    /\ last_call.total_items > large_order_items
    /\ last_call.priority = "HIGH"
    /\ last_call.time > base_time * priority_multipliers["HIGH"]

\* C25: the distance from A to B equals the distance from B to A, and the
\* distance from A to A is 0
DistanceSymmetry ==
    last_call.op = "distance_to" =>
        /\ last_call.ab = last_call.ba
        /\ last_call.aa = 0

\* a distance between two locations that differ in latitude and in longitude
DistanceOfDistinctLocations ==
    /\ last_call.op = "distance_to"
    /\ last_call.a.latitude # last_call.b.latitude
    /\ Abs(last_call.a.latitude) # Abs(last_call.b.latitude)
    /\ last_call.a.longitude # last_call.b.longitude
    /\ last_call.ab > 0

\* the members of a cluster in descending order of their current capacity
SortedByCurrent(c) ==
    {sq \in [1..Cardinality(nodes[c]) -> nodes[c]] :
        /\ \A i, j \in DOMAIN sq : i # j => sq[i] # sq[j]
        /\ \A i, j \in DOMAIN sq :
              i < j => current_capacity[sq[i]] >= current_capacity[sq[j]]}

\* C26: a successful allocate_order leaves the capacities that result from
\* giving each item, in the order's item order, to the first member that can
\* fulfil it when the members are scanned in descending order of the current
\* capacity they had at the start of the call
GreedyAllocationOrder ==
    [][\A c \in Clusters, o \in AllocatedOrders :
          (AllocateOrder(c, o) /\ last_call'.result) =>
              \E sq \in SortedByCurrent(c) :
                  current_capacity' =
                      allocate_order(current_capacity, metrics, c, o, sq).cap]_vars

\* total quantity of the items of an order that an assignment gives to a node
RECURSIVE SumGiven(_, _, _, _)
SumGiven(o, f, n, i) ==
    IF i = 0 THEN 0
    ELSE (IF f[i] = n THEN o.items[i].quantity ELSE 0) + SumGiven(o, f, n, i - 1)

\* C27: when allocate_order returns an allocation, every item of the order has
\* gone to exactly one member, each member's current_capacity is lower by the
\* quantities of the items given to it, available_capacity is lower by the
\* order's total quantity, and active_orders and total_orders_processed are
\* each higher by one
SuccessfulAllocationEffects ==
    [][\A c \in Clusters, o \in AllocatedOrders :
          (AllocateOrder(c, o) /\ last_call'.result) =>
              /\ \E f \in [DOMAIN o.items -> nodes[c]] :
                    \A n \in Nodes :
                        current_capacity'[n] =
                            current_capacity[n] - SumGiven(o, f, n, Len(o.items))
              /\ metrics'[c].available_capacity =
                     metrics[c].available_capacity - total_quantity(o)
              /\ metrics'[c].active_orders = metrics[c].active_orders + 1
              /\ metrics'[c].total_orders_processed = metrics[c].total_orders_processed + 1
              /\ \A d \in Clusters \ {c} : metrics'[d] = metrics[d]]_vars

\* an allocation has lowered the capacity of two members of a cluster
AllocatedToTwoMembers ==
    /\ last_call.op = "allocate_order" /\ last_call.result
    /\ \E c \in clusters :
          /\ metrics[c].active_orders = 1
          /\ Cardinality({n \in nodes[c] : current_capacity[n] < daily_capacity[n]}) = 2

\* C28: after a successful route_order, the current capacity of each node is
\* lower than before the call by the total quantity of the items listed for
\* it in node_assignments, and unchanged for a node that is not listed
ReservationsMatchAssignments ==
    (rt.pc = "done" /\ rt.success) =>
        \A n \in Nodes :
            rt.pre_capacity[n] - current_capacity[n] =
                IF n \in DOMAIN rt.node_assignments
                THEN SumIdxQty(rt.order, rt.node_assignments[n])
                ELSE 0

\* units reserved by a step, over all nodes
RECURSIVE SumDrop(_)
SumDrop(S) ==
    IF S = {} THEN 0
    ELSE LET n == CHOOSE x \in S : TRUE
         IN (current_capacity[n] - current_capacity'[n]) + SumDrop(S \ {n})

FIFOProduction ==
    [][\A n \in Nodes :
          /\ producing'[n] # NoOrder =>
                 /\ production_queue'[n] # <<>>
                 /\ producing'[n].id = Head(production_queue'[n])
          /\ order_history'[n] # order_history[n] =>
                 /\ production_queue[n] # <<>>
                 /\ order_history'[n] = Append(order_history[n], Head(production_queue[n]))
                 /\ production_queue'[n] = Tail(production_queue[n])
          /\ order_history'[n] = order_history[n] =>
                 \/ production_queue'[n] = production_queue[n]
                 \/ \E id \in OrderIds :
                        production_queue'[n] = Append(production_queue[n], id)]_vars

\* an order has just been accepted while another is in production at the head
AcceptedDuringProduction ==
    \E n \in Nodes :
        /\ producing[n] # NoOrder
        /\ last_call.op = "handle_order" /\ last_call.result /\ last_call.node = n
        /\ Len(production_queue[n]) = 2
        /\ producing[n].id = production_queue[n][1]
        /\ production_queue[n][2] # production_queue[n][1]

RECURSIVE SumActive(_, _)
SumActive(n, S) ==
    IF S = {} THEN 0
    ELSE LET id == CHOOSE x \in S : TRUE
         IN total_quantity(active_orders[n][id]) + SumActive(n, S \ {id})

\* C32: on every node the capacity in use, daily_capacity - current_capacity,
\* equals the sum of the total quantities of the orders in active_orders
NodeCapacityConservation ==
    \A n \in Nodes :
        daily_capacity[n] - current_capacity[n] = SumActive(n, DOMAIN active_orders[n])

\* the shops whose entry in shop_assignments lists the item index
ShopsListing(idx) ==
    {sh \in DOMAIN shop_assignments :
        \E k \in DOMAIN shop_assignments[sh] : shop_assignments[sh][k] = idx}

\* C33: every item index is listed under at most one shop id in
\* shop_assignments, and that shop is the assigned_shop_id of the item
ItemAssignedToOneShop ==
    \A idx \in 0..(MaxItems - 1) :
        /\ Cardinality(ShopsListing(idx)) <= 1
        /\ \A sh \in ShopsListing(idx) : assigned_shop_id[idx] = sh

\* C34: the network metrics report the number of registered clusters and the
\* sum of daily_capacity over the nodes of the registered clusters
NetworkMetricsCurrent ==
    /\ network_metrics.total_clusters = Cardinality(clusters)
    /\ network_metrics.total_capacity = SumDaily(UNION {nodes[c] : c \in clusters})

\* the counters over one step of the router: a starting call adds one to
\* total_orders, a completing call adds one to the counter its result names
StatsStep ==
    /\ (rt.pc = "idle" /\ rt'.pc # "idle") =>
          /\ stats'.total_orders = stats.total_orders + 1
          /\ stats'.successful_routes = stats.successful_routes
          /\ stats'.failed_routes = stats.failed_routes
    /\ (rt.pc \notin {"idle", "done"} /\ rt'.pc = "done") =>
          /\ stats'.total_orders = stats.total_orders
          /\ IF rt'.success
             THEN /\ stats'.successful_routes = stats.successful_routes + 1
                  /\ stats'.failed_routes = stats.failed_routes
             ELSE /\ stats'.successful_routes = stats.successful_routes
                  /\ stats'.failed_routes = stats.failed_routes + 1
    /\ (rt'.pc = rt.pc => stats' = stats)

\* the statistics as get_routing_stats reports them between steps
StatsConsistent ==
    LET s == get_routing_stats
    IN /\ (rt.pc \in {"idle", "done"} =>
              s.total_orders = s.successful_routes + s.failed_routes)
       /\ (s.total_orders = 0 => s.success_rate = Frac(0, 1))

\* C35: a route_order call adds one to total_orders when it starts and one to
\* exactly one of successful_routes and failed_routes when it completes, the
\* one its result names; with no call in flight total_orders is the sum of the
\* two, and success_rate is 0 while total_orders is 0
RoutingStatistics == []StatsConsistent /\ [][StatsStep]_vars

\* a route_order call has completed with a failure result
FailedRouteCounted ==
    /\ rt.pc = "done"
    /\ ~rt.success
    /\ stats.failed_routes = 1
    /\ stats.total_orders = 1

\* C36: the inventory sub-score of a candidate node is 1 for an order none of
\* whose items names a SKU, and 0 for an order whose items all name SKUs the
\* node does not track
InventoryScoreOfSkuLessOrders ==
    last_call.op = "score_shops" =>
        /\ (\A k \in DOMAIN last_call.items : last_call.items[k].sku = "none") =>
               last_call.inventory_score.num = last_call.inventory_score.den
        /\ (/\ last_call.items # <<>>
            /\ \A k \in DOMAIN last_call.items :
                  /\ last_call.items[k].sku # "none"
                  /\ last_call.items[k].sku \notin DOMAIN inventory[last_call.node]) =>
               last_call.inventory_score.num = 0

\* a score between 0 and the whole number k
InRange(x, k) == x.num >= 0 /\ x.num <= k * x.den

\* C37: every sub-score of node scoring and of cluster scoring lies in [0, 1],
\* and so does the weighted composite (held as ten times its value)
SubScoreRange ==
    /\ last_call.op = "score_shops" =>
          /\ InRange(last_call.distance_score, 1)
          /\ InRange(last_call.capacity_score, 1)
          /\ InRange(last_call.inventory_score, 1)
          /\ InRange(last_call.capability_score, 1)
          /\ InRange(last_call.score, 10)
    /\ last_call.op = "optimize_cluster_assignment" =>
          /\ InRange(last_call.distance_score, 1)
          /\ InRange(last_call.capacity_score, 1)
          /\ InRange(last_call.capability_score, 1)
          /\ InRange(last_call.score, 10)

\* C38: the estimated_time of the result of a successfully routed RUSH order
\* is below 24 hours, whichever tier built the result and whatever the
\* quantity of the order
RushEstimate ==
    (last_call.op = "estimated_time" /\ last_call.priority = "RUSH") =>
        last_call.time < base_time * 100

\* a RUSH order of more than 100 items routed by the multi-cluster tier
LargeRushAcrossClusters ==
    /\ last_call.op = "estimated_time"
    /\ last_call.priority = "RUSH"
    /\ last_call.routing_type = "multi_cluster"
    /\ last_call.total_items > large_order_items
    /\ last_call.time = 2340

\* C39: a send_message call for a request returns the peer's reply when that
\* reply was passed to handle_message before the timeout, returns None when
\* it timed out, and leaves no entry for its message id in pending_responses
RequestResponseMatching ==
    \A id \in MessageIds :
        (sends[id].pc = "returned" /\ sends[id].type \in RequestTypes) =>
            /\ sends[id].replied =>
                   sends[id].value = [type |-> reply_type(sends[id].type),
                                      message_id |-> id]
            /\ sends[id].timed_out => sends[id].value = NoMessage
            /\ id \notin DOMAIN pending_responses

\* a step that publishes message m to topic t: m is appended to the list of the
\* topic, every callback subscribed to t at the call is invoked once more,
\* with m, and no other callback is invoked; True is returned if and only if
\* t had a subscriber
PublishStep(t, m) ==
    /\ Len(published_messages'[t]) = Len(published_messages[t]) + 1
    /\ SubSeq(published_messages'[t], 1, Len(published_messages[t])) = published_messages[t]
    /\ published_messages'[t][Len(published_messages'[t])].message = m
    /\ \A u \in Topics \ {t} : published_messages'[u] = published_messages[u]
    /\ \A cb \in Callbacks :
          IF cb \in subscribers[t]
          THEN /\ Len(received'[cb]) = Len(received[cb]) + 1
               /\ SubSeq(received'[cb], 1, Len(received[cb])) = received[cb]
               /\ received'[cb][Len(received'[cb])].message = m
               /\ received'[cb][Len(received'[cb])].topic = t
          ELSE received'[cb] = received[cb]
    /\ last_call'.op = "publish"
    /\ last_call'.result = (subscribers[t] # {})

\* C40: publish(topic, m) invokes every callback subscribed to the topic
\* exactly once and no other callback, a raising callback among them or not,
\* records m under published_messages[topic], and returns True if and only if
\* the topic had a subscriber
TransportDelivery ==
    [][published_messages' # published_messages =>
          \E t \in Topics, m \in Messages : PublishStep(t, m)]_vars

\* a message went to a topic with a raising and a well-behaved subscriber
\* while a third callback listens to the other topic only
DeliveredPastRaisingCallback ==
    /\ last_call.op = "publish"
    /\ last_call.result
    /\ subscribers[last_call.topic] = {"cb1", "cb2"}
    /\ \E u \in Topics \ {last_call.topic} : "cb3" \in subscribers[u]
    /\ Len(received["cb1"]) = 1
    /\ Len(received["cb2"]) = 1
    /\ received["cb3"] = <<>>

====
